---- MODULE Spec2Model ----
(***************************************************************************)
(* A model of the PubMed RAG ingestion-and-retrieval pipeline:             *)
(*   src/pubmed_ingestor.py   PubMedIngestor (_chunk_text, fetch_and_ingest)*)
(*   src/mongodb_handler.py   MongoDBHandler (the Metadata Store adapter)   *)
(*   src/chromadb_handler.py  ChromaDBHandler (the Vector Store adapter)    *)
(*                                                                         *)
(* Four specifications share the variables:                                *)
(*   SpecChunk  applies _chunk_text to every bounded text and window size,  *)
(*   SpecStore  drives the MongoDBHandler operations directly,              *)
(*   Spec       runs fetch_and_ingest, stage by stage, against both stores, *)
(*   SpecRerun  is Spec with a source that returns the same records again   *)
(*              after a run whose writes all succeeded.                     *)
(* Further specifications, each introduced where it is defined: SpecRace,   *)
(* SpecApi, SpecIngest, SpecVector and SpecGraph.                           *)
(* A text is a sequence of one-character strings; identifiers and titles    *)
(* are strings.                                                             *)
(***************************************************************************)
EXTENDS Integers, Sequences, FiniteSets, TLC

VARIABLES
    \* ---- _chunk_text, applied as a pure function (SpecChunk)
    text,                       \* the argument text
    chunk_size_sentences,       \* the argument chunk_size_sentences
    chunks,                     \* the returned list
    returned,                   \* TRUE once _chunk_text has returned
    \* ---- MongoDBHandler
    mongo_client,               \* self.client is not None
    articles_collection,        \* self.articles_collection is not None
    mongo_docs,                 \* the documents of the server's 'articles' collection
    last_call,                  \* the latest direct adapter call: arguments, outcome, store before
    \* ---- ChromaDBHandler
    chroma_client,              \* self.client is not None
    chroma_collection,          \* self.collection is not None
    chroma_model,               \* self.model is not None
    chroma_index,               \* the records of the persistent collection
    collection_deleted,         \* self.collection refers to a collection that was deleted
    \* ---- PubMedIngestor.fetch_and_ingest
    pc,                         \* the stage of the current run
    records,                    \* the raw records Medline.parse yields
    articles_to_mongo,
    chunks_to_chroma_texts,
    chunks_to_chroma_metadatas,
    chunks_to_chroma_ids,
    next_article,               \* position of the insert loop in articles_to_mongo
    calls,                      \* the adapter calls the current run has made, in order
    run_no,                     \* number of runs started
    at_start,                   \* both stores as they were when the current run started
    prev_run,                   \* the previous completed run: its records, outcome and stores
    logged,                     \* the counts the log messages of the current run state
    \* ---- two fetch_and_ingest calls running at the same time (SpecRace)
    workers,                    \* the position and locals of either call
    \* ---- the HTTP endpoints of main.py (SpecApi)
    response,                   \* the latest request and the response it got
    \* ---- ChromaDBHandler called directly (SpecVector)
    vector_call,                \* the latest call: arguments, outcome, index before
    \* ---- MongoDBHandler.get_author_network_data (SpecGraph)
    graph_call,                 \* the latest call: filter, cursor order, returned graph
    \* ---- the credential of the bibliographic source
    Entrez_email,               \* Bio.Entrez.email, the address Entrez calls are made with
    ingestor_email              \* pubmed_ingestor.email (None while the attribute is not set)

chunkVars == <<text, chunk_size_sentences, chunks, returned>>
mongoVars == <<mongo_client, articles_collection, mongo_docs, last_call>>
chromaVars ==
    <<chroma_client, chroma_collection, chroma_model, chroma_index, collection_deleted>>
runVars == <<pc, records, articles_to_mongo, chunks_to_chroma_texts,
             chunks_to_chroma_metadatas, chunks_to_chroma_ids, next_article,
             calls, run_no, at_start, prev_run, logged>>
entrezVars == <<Entrez_email, ingestor_email>>
otherVars == <<workers, response, vector_call, graph_call, entrezVars>>
vars == <<chunkVars, mongoVars, chromaVars, runVars, otherVars>>

\* Python's None.
None == "None"

(***************************************************************************)
(* Bounds of the model.                                                    *)
(***************************************************************************)
MaxTextLen == 6         \* longest text given to _chunk_text in SpecChunk
MaxChunkSize == 3       \* largest chunk_size_sentences in SpecChunk
MaxBatch == 2           \* most raw records one fetch returns
MaxRuns == 2            \* most runs of fetch_and_ingest in a behaviour
MaxAdd == 3             \* longest list given to add_chunks in SpecVector
MaxResults == 3         \* largest n_results given to query_chunks in SpecVector
MaxArticles == 2        \* most Articles stored in SpecGraph

\* The default of chunk_size_sentences.
DefaultChunkSize == 3

(***************************************************************************)
(* Text helpers: the character classes of the regular expression           *)
(* (?<=[.!?])\s+ and the str methods _chunk_text uses.                     *)
(***************************************************************************)
\* The characters texts are built from: a letter, two sentence terminators
\* and a whitespace character.
Alphabet == {"a", ".", "?", " "}

\* [.!?]
IsTerminator(c) == c \in {".", "!", "?"}

\* \s
IsSpace(c) == c \in {" ", "\t", "\n", "\r"}

\* Texts of at most n characters.
TextsUpTo(n) == UNION {[1..k -> Alphabet] : k \in 0..n}

\* The first position >= i of s that holds no whitespace (Len(s)+1 if none):
\* where a greedy \s+ starting at i stops.
RECURSIVE SkipSpaces(_, _)
SkipSpaces(s, i) ==
    IF i <= Len(s) /\ IsSpace(s[i]) THEN SkipSpaces(s, i + 1) ELSE i

\* re.split(r'(?<=[.!?])\s+', s) scanning from position i; cur is the piece
\* being collected, acc the pieces cut so far.
RECURSIVE SplitFromAlt(_, _, _, _)
SplitFromAlt(s, i, cur, acc) ==
    IF i > Len(s) THEN Append(acc, cur)
    ELSE IF IsSpace(s[i])
         THEN SplitFromAlt(s, SkipSpaces(s, i), <<>>, Append(acc, cur))
         ELSE SplitFromAlt(s, i + 1, Append(cur, s[i]), acc)

RECURSIVE SplitFrom(_, _, _, _)
SplitFrom(s, i, cur, acc) ==
    IF i > Len(s) THEN Append(acc, cur)
    ELSE IF IsSpace(s[i]) /\ i > 1 /\ IsTerminator(s[i - 1])
         THEN SplitFrom(s, SkipSpaces(s, i), <<>>, Append(acc, cur))
         ELSE SplitFrom(s, i + 1, Append(cur, s[i]), acc)

\* re.split(r'(?<=[.!?])\s+', s): never an empty list.
re_split(s) == SplitFrom(s, 1, <<>>, <<>>)

\* str.lstrip(), str.rstrip(), str.strip()
RECURSIVE lstrip(_)
lstrip(s) == IF s # <<>> /\ IsSpace(Head(s)) THEN lstrip(Tail(s)) ELSE s

RECURSIVE rstrip(_)
rstrip(s) ==
    IF s # <<>> /\ IsSpace(s[Len(s)]) THEN rstrip(SubSeq(s, 1, Len(s) - 1)) ELSE s

strip(s) == rstrip(lstrip(s))

\* " ".join(parts)
RECURSIVE join(_)
join(parts) ==
    IF parts = <<>> THEN <<>>
    ELSE IF Len(parts) = 1 THEN parts[1]
    ELSE parts[1] \o <<" ">> \o join(Tail(parts))

(***************************************************************************)
(* PubMedIngestor._chunk_text                                              *)
(***************************************************************************)
\* The for loop of _chunk_text at iteration i (0-based, as enumerate gives it).
\* A variant that flushes a full window only: it loses the final, shorter one.
RECURSIVE ChunkLoopNoTail(_, _, _, _, _)
ChunkLoopNoTail(sentences, i, current_chunk, out, size) ==
    IF i >= Len(sentences) THEN out
    ELSE LET cur == Append(current_chunk, strip(sentences[i + 1]))
         IN  IF (i + 1) % size = 0
             THEN ChunkLoopNoTail(sentences, i + 1, <<>>,
                                  IF cur # <<>> THEN Append(out, join(cur)) ELSE out,
                                  size)
             ELSE ChunkLoopNoTail(sentences, i + 1, cur, out, size)

RECURSIVE ChunkLoop(_, _, _, _, _)
ChunkLoop(sentences, i, current_chunk, out, size) ==
    IF i >= Len(sentences) THEN out
    ELSE LET cur == Append(current_chunk, strip(sentences[i + 1]))
         IN  IF (i + 1) % size = 0 \/ i = Len(sentences) - 1
             THEN ChunkLoop(sentences, i + 1, <<>>,
                            IF cur # <<>> THEN Append(out, join(cur)) ELSE out,
                            size)
             ELSE ChunkLoop(sentences, i + 1, cur, out, size)

\* _chunk_text(text, chunk_size_sentences)
_chunk_text(t, size) ==
    IF t = <<>> THEN <<>>
    ELSE ChunkLoop(re_split(t), 0, <<>>, <<>>, size)

(***************************************************************************)
(* Values the variables of a specification hold while it does not use them. *)
(***************************************************************************)
NoCall == [op |-> None]
NoStores == [mongo |-> {}, chroma |-> {}]
NoRun == [ok |-> FALSE, records |-> <<>>]

\* The variables of SpecRace, SpecApi, SpecVector and SpecGraph.
\* The address the ingestor is constructed with (lifespan).
DefaultEmail == "default@example.com"

\* PubMedIngestor.__init__(..., email): Entrez.email = email; the instance gets
\* no email attribute.
EntrezIdle ==
    /\ Entrez_email = DefaultEmail
    /\ ingestor_email = None

OthersIdle ==
    /\ workers = <<>>
    /\ response = NoCall
    /\ vector_call = NoCall
    /\ graph_call = NoCall
    /\ EntrezIdle

ChunkIdle ==
    /\ text = <<>>
    /\ chunk_size_sentences = 1
    /\ chunks = <<>>
    /\ returned = FALSE

(***************************************************************************)
(* The raw records of the bibliographic source (Bio.Medline records) and    *)
(* their parsing into article_data (fetch_and_ingest, the for loop).        *)
(***************************************************************************)
\* A key the record (or dict) does not hold.
Absent == "<absent>"

\* A four-sentence abstract (two chunks at the default window of 3) and a
\* one-sentence abstract.
LongAbstract == <<"a", ".", " ", "a", "?", " ", "a", ".", " ", "a", ".">>
ShortAbstract == <<"a", ".">>

\* The default of record.get("AB", ...): "No Abstract Available"
NoAbstractAvailable ==
    <<"N", "o", " ", "A", "b", "s", "t", "r", "a", "c", "t", " ",
      "A", "v", "a", "i", "l", "a", "b", "l", "e">>

\* The raw records a fetch may return: two records with the same PMID and
\* different fields, a record lacking every optional field (its PMID is the
\* first chunk identifier of the record before it), a record whose abstract is
\* the empty string, and a record without PMID.
\* A record is its fields and the set of keys it holds (a field whose key is
\* not held has no meaning).
AllKeys == {"PMID", "TI", "AB", "AU", "DP"}

RawRecords ==
    { [keys |-> AllKeys,
       PMID |-> "1", TI |-> "T1", AB |-> LongAbstract, AU |-> <<"X", "Y">>,
       DP |-> "2023 Jan 15"],
      [keys |-> AllKeys,
       PMID |-> "1", TI |-> "T2", AB |-> ShortAbstract, AU |-> <<"Y", "Z">>,
       DP |-> "2023"],
      [keys |-> {"PMID"},
       PMID |-> "1_chunk_0", TI |-> "", AB |-> <<>>, AU |-> <<>>, DP |-> ""],
      [keys |-> AllKeys,
       PMID |-> "1_chunk_0", TI |-> "T1", AB |-> <<>>, AU |-> <<"Z">>,
       DP |-> "Spring 2023"],
      [keys |-> AllKeys \ {"PMID"},
       PMID |-> "", TI |-> "T1", AB |-> LongAbstract, AU |-> <<"X">>,
       DP |-> "2023 Jan"] }

\* record.get(key, default)
Get(record, key, default) == IF key \in record.keys THEN record[key] ELSE default

\* not pmid: the key is missing or the value is the empty string
HasPMID(record) == Get(record, "PMID", "") # ""

\* The publication date of a record: the three patterns in priority order,
\* None when DP is missing or matches none of them.
ParseDate(pub_date_raw) ==
    CASE pub_date_raw = None          -> None
      [] pub_date_raw = "2023 Jan 15" -> "2023-01-15T00:00:00"
      [] pub_date_raw = "2023 Jan"    -> "2023-01-01T00:00:00"
      [] pub_date_raw = "2023"        -> "2023-01-01T00:00:00"
      [] OTHER                        -> None

\* The article_data dict built from a record that has a PMID.
ArticleData(record) ==
    [_id |-> record.PMID,
     title |-> Get(record, "TI", "No Title Available"),
     abstract |-> Get(record, "AB", NoAbstractAvailable),
     authors |-> Get(record, "AU", <<>>),
     publication_date |-> ParseDate(Get(record, "DP", None)),
     source |-> "PubMed"]

\* The dicts insert_article is called with: those the ingestor builds and one
\* without the '_id' key.
ArticleDatas ==
    {ArticleData(r) : r \in {x \in RawRecords : HasPMID(x)}}
    \cup {[_id |-> Absent, title |-> "T1", abstract |-> ShortAbstract,
           authors |-> <<>>, publication_date |-> None, source |-> "PubMed"]}

(***************************************************************************)
(* The document store behind MongoDBHandler (pymongo Collection).           *)
(***************************************************************************)
\* What a call on the server may do besides succeed: raise in find_one, or
\* raise in the write (insert_one, delete_many).
MongoFaults == {"none", "find_one", "write"}

\* collection.find_one({'_id': id}): the document, or None
find_one(docs, id) ==
    IF \E d \in docs : d._id = id
    THEN [found |-> TRUE, doc |-> CHOOSE d \in docs : d._id = id]
    ELSE [found |-> FALSE]

\* collection.insert_one(doc): _id is the collection's unique key, a second
\* document with a stored _id raises DuplicateKeyError.
insert_one(docs, doc) ==
    IF \E d \in docs : d._id = doc._id
    THEN [raised |-> TRUE, docs |-> docs]
    ELSE [raised |-> FALSE, docs |-> docs \cup {doc}]

(***************************************************************************)
(* MongoDBHandler                                                          *)
(***************************************************************************)
\* The outcome of an adapter call: the value returned, the store after the
\* call, and whether the store failed (raised) during the call.
Outcome(ret, docs, hit) == [ret |-> ret, docs |-> docs, hit |-> hit]

\* insert_article without the existence check.
insert_article_unchecked(collection, docs, article_data, fault) ==
    IF ~collection THEN Outcome(None, docs, FALSE)
    ELSE IF article_data._id = Absent THEN Outcome(None, docs, FALSE)
    ELSE IF fault # "none" THEN Outcome(None, docs, TRUE)
    ELSE LET result == insert_one(docs, article_data)
         IN  IF result.raised THEN Outcome(None, docs, FALSE)
             ELSE Outcome(article_data._id, result.docs, FALSE)

\* insert_article that replaces the stored document when the _id exists.
insert_article_overwrite(collection, docs, article_data, fault) ==
    IF ~collection THEN Outcome(None, docs, FALSE)
    ELSE IF article_data._id = Absent THEN Outcome(None, docs, FALSE)
    ELSE IF fault # "none" THEN Outcome(None, docs, TRUE)
    ELSE Outcome(article_data._id,
                 {d \in docs : d._id # article_data._id} \cup {article_data}, FALSE)

\* insert_article that answers with the identifier when it cannot reach the
\* store.
insert_article_masking(collection, docs, article_data, fault) ==
    IF ~collection THEN Outcome(article_data._id, docs, FALSE)
    ELSE IF article_data._id = Absent THEN Outcome(None, docs, FALSE)
    ELSE IF fault = "find_one" THEN Outcome(article_data._id, docs, TRUE)
    ELSE IF find_one(docs, article_data._id).found
         THEN Outcome(article_data._id, docs, FALSE)
    ELSE IF fault = "write" THEN Outcome(article_data._id, docs, TRUE)
    ELSE LET result == insert_one(docs, article_data)
         IN  IF result.raised THEN Outcome(None, docs, FALSE)
             ELSE Outcome(article_data._id, result.docs, FALSE)

\* insert_article(article_data): the value it returns and the documents of the
\* store after it. collection is self.articles_collection is not None.
insert_article(collection, docs, article_data, fault) ==
    IF ~collection THEN Outcome(None, docs, FALSE)
    ELSE IF article_data._id = Absent THEN Outcome(None, docs, FALSE)
    ELSE IF fault = "find_one" THEN Outcome(None, docs, TRUE)
    ELSE IF find_one(docs, article_data._id).found
         THEN Outcome(article_data._id, docs, FALSE)
    ELSE IF fault = "write" THEN Outcome(None, docs, TRUE)
    ELSE LET result == insert_one(docs, article_data)
         IN  IF result.raised THEN Outcome(None, docs, FALSE)
             ELSE Outcome(article_data._id, result.docs, FALSE)

\* The record of an insert_article call.
InsertCall(article_data, fault, collection, before, ret) ==
    [op |-> "insert_article", arg |-> article_data, fault |-> fault,
     collection |-> collection, before |-> before, ret |-> ret]

\* connect(): MongoClient and the ismaster command succeed ...
MongoConnectOk ==
    /\ mongo_client' = TRUE
    /\ articles_collection' = TRUE
    /\ UNCHANGED <<mongo_docs, last_call>>

\* ... or raise: client and db are reset, articles_collection is left as it was.
MongoConnectFail ==
    /\ mongo_client' = FALSE
    /\ UNCHANGED <<articles_collection, mongo_docs, last_call>>

\* disconnect()
MongoDisconnect ==
    /\ mongo_client
    /\ mongo_client' = FALSE
    /\ UNCHANGED <<articles_collection, mongo_docs, last_call>>

\* A call of insert_article(article_data) on the handler.
InsertArticle ==
    \E article_data \in ArticleDatas, fault \in MongoFaults :
        LET out == insert_article(articles_collection, mongo_docs, article_data, fault)
        IN  /\ mongo_docs' = out.docs
            /\ last_call' = InsertCall(article_data, out.hit, articles_collection,
                                       mongo_docs, out.ret)
            /\ UNCHANGED <<mongo_client, articles_collection>>

\* A call of clear_database().
ClearDatabase ==
    \E fault \in {"none", "write"} :
        /\ mongo_docs' = IF articles_collection /\ fault = "none" THEN {} ELSE mongo_docs
        /\ last_call' = [op |-> "clear_database",
                         fault |-> (articles_collection /\ fault # "none"),
                         collection |-> articles_collection, before |-> mongo_docs]
        /\ UNCHANGED <<mongo_client, articles_collection>>

(***************************************************************************)
(* MongoDBHandler.get_author_network_data                                   *)
(***************************************************************************)
\* The author names of the model, in the order Python's string comparison
\* puts them.
AuthorNames == <<"X", "Y", "Z">>

\* The position of a name in that order.
Rank(name) == CHOOSE k \in 1..Len(AuthorNames) : AuthorNames[k] = name

\* a < b, a <= b on author names
Before(a, b) == Rank(a) < Rank(b)

NotAfter(a, b) == Rank(a) <= Rank(b)

\* The list with x put in after the last element that is not after x.
RECURSIVE InsertSorted(_, _)
InsertSorted(s, x) ==
    IF s = <<>> THEN <<x>>
    ELSE IF NotAfter(s[Len(s)], x) THEN Append(s, x)
    ELSE Append(InsertSorted(SubSeq(s, 1, Len(s) - 1), x), s[Len(s)])

\* A pairing that takes the authors in byline order.
unsorted(authors) == authors

\* sorted(authors)
RECURSIVE sorted(_)
sorted(authors) ==
    IF authors = <<>> THEN <<>>
    ELSE InsertSorted(sorted(SubSeq(authors, 1, Len(authors) - 1)), authors[Len(authors)])

\* itertools.combinations(s, 2): the pairs (s[i], s[j]), i < j, in the order
\* (1,2), (1,3), ..., (2,3), ...
RECURSIVE combinations(_)
combinations(s) ==
    IF Len(s) < 2 THEN <<>>
    ELSE [k \in 1..(Len(s) - 1) |-> <<s[1], s[k + 1]>>] \o combinations(Tail(s))

\* The identifier filter of a graph request: given says whether article_pmids
\* is a list (it is None otherwise), ids is the list.
NoFilter == [given |-> FALSE, ids |-> <<>>]

\* if article_pmids: (a list with at least one element)
Truthy(article_pmids) == article_pmids.given /\ article_pmids.ids # <<>>

\* The documents query_filter selects.
Selected(docs, article_pmids) ==
    IF Truthy(article_pmids)
    THEN {d \in docs : \E k \in 1..Len(article_pmids.ids) : article_pmids.ids[k] = d._id}
    ELSE docs

\* collection.find(query_filter, projection): the selected documents, in any
\* order the cursor may yield them.
find(docs, article_pmids) ==
    LET sel == Selected(docs, article_pmids)
    IN  {c \in [1..Cardinality(sel) -> sel] :
            \A a, b \in 1..Cardinality(sel) : a # b => c[a] # c[b]}

\* A node loop that adds a node for every occurrence of a name.
AddNodesRepeating(nodes, authors, i) ==
    nodes \o [k \in 1..(Len(authors) - i + 1) |->
                [id |-> authors[i + k - 1], name |-> authors[i + k - 1],
                 type |-> "author"]]

\* The loop "for author_name in authors" from position i on: nodes is the list
\* of the dict's values in insertion order.
RECURSIVE AddNodes(_, _, _)
AddNodes(nodes, authors, i) ==
    IF i > Len(authors) THEN nodes
    ELSE AddNodes(IF \E k \in 1..Len(nodes) : nodes[k].id = authors[i]
                  THEN nodes
                  ELSE Append(nodes, [id |-> authors[i], name |-> authors[i],
                                      type |-> "author"]),
                  authors, i + 1)

\* f"{author1}--{author2}"
LinkKey(author1, author2) == author1 \o "--" \o author2

\* The loop over the pairs from pair i on: links is the list of the dict's
\* values in insertion order, each with its key.
RECURSIVE AddLinks(_, _, _, _)
AddLinks(links, pairs, i, entry) ==
    IF i > Len(pairs) THEN links
    ELSE LET link_key == LinkKey(pairs[i][1], pairs[i][2])
             with_key == IF \E k \in 1..Len(links) : links[k].key = link_key
                         THEN links
                         ELSE Append(links, [key |-> link_key,
                                             source |-> pairs[i][1],
                                             target |-> pairs[i][2],
                                             articles |-> <<>>])
         IN  AddLinks([k \in 1..Len(with_key) |->
                          IF with_key[k].key = link_key
                          THEN [with_key[k] EXCEPT !.articles = Append(@, entry)]
                          ELSE with_key[k]],
                      pairs, i + 1, entry)

\* The loop "for article in articles" from document i of the cursor on.
RECURSIVE GraphLoop(_, _, _, _)
GraphLoop(cursor, i, nodes, links) ==
    IF i > Len(cursor)
    THEN [nodes |-> nodes,
          links |-> [k \in 1..Len(links) |->
                        [source |-> links[k].source, target |-> links[k].target,
                         articles |-> links[k].articles]]]
    ELSE LET article == cursor[i]
             authors == article.authors
             entry == [pmid |-> article._id, title |-> article.title]
         IN  GraphLoop(cursor, i + 1, AddNodes(nodes, authors, 1),
                       IF Len(authors) > 1
                       THEN AddLinks(links, combinations(sorted(authors)), 1, entry)
                       ELSE links)

\* {"nodes": [], "links": []}
EmptyGraph == [nodes |-> <<>>, links |-> <<>>]

\* get_author_network_data(article_pmids), cursor being what find yields for
\* the filter: the dict it returns. A find that raises gives the empty graph.
get_author_network_data(collection, cursor, fault) ==
    IF ~collection THEN EmptyGraph
    ELSE IF fault # "none" THEN EmptyGraph
    ELSE GraphLoop(cursor, 1, <<>>, <<>>)

\* A call of get_author_network_data(article_pmids) on the handler.
GetAuthorNetworkData(filters) ==
    \E article_pmids \in filters, fault \in {"none", "find"} :
        \E cursor \in find(mongo_docs, article_pmids) :
            /\ graph_call' = [op |-> "get_author_network_data",
                              article_pmids |-> article_pmids,
                              collection |-> articles_collection,
                              fault |-> fault, before |-> mongo_docs,
                              cursor |-> cursor,
                              ret |-> get_author_network_data(articles_collection,
                                                              cursor, fault)]
            /\ UNCHANGED mongoVars

(***************************************************************************)
(* The vector index behind ChromaDBHandler (chromadb Collection) and the    *)
(* embedding model.                                                        *)
(***************************************************************************)
\* What an add_chunks call may meet besides success: model.encode raises, or
\* collection.add raises.
ChromaFaults == {"none", "encode", "add"}

\* Some identifier occurs twice in the list.
HasDuplicates(ids) == \E a, b \in 1..Len(ids) : a # b /\ ids[a] = ids[b]

\* The (id, document, metadata) records of a batch.
BatchRecords(texts, metadatas, ids) ==
    {[id |-> ids[k], document |-> texts[k], metadata |-> metadatas[k]] : k \in 1..Len(ids)}

\* A collection.add that refuses a batch holding a stored identifier.
collection_add_strict(index, texts, metadatas, ids) ==
    IF HasDuplicates(ids) \/ \E k \in 1..Len(ids), x \in index : x.id = ids[k]
    THEN [raised |-> TRUE, index |-> index]
    ELSE [raised |-> FALSE,
          index |-> index \cup BatchRecords(texts, metadatas, ids)]

\* collection.add(documents, embeddings, metadatas, ids): a batch that repeats
\* an identifier is refused (DuplicateIDError); a record whose identifier the
\* index already holds is ignored, the stored record is kept.
collection_add(index, texts, metadatas, ids) ==
    IF HasDuplicates(ids)
    THEN [raised |-> TRUE, index |-> index]
    ELSE [raised |-> FALSE,
          index |-> index \cup {r \in BatchRecords(texts, metadatas, ids) :
                                  \A x \in index : x.id # r.id}]

\* The embedding model is a function from texts to vectors, and the index
\* measures the squared L2 distance of two vectors. Here the vector of a text
\* has one component, the length of the text.
Embedding(t) == Len(t)

Distance(query_text, document) ==
    (Embedding(query_text) - Embedding(document)) * (Embedding(query_text) - Embedding(document))

\* collection.query(query_embeddings=[e], n_results=k, include=...): the
\* answers the index may give for one query, each a list of records: the
\* min(k, count) records nearest to the query, nearest first; records at equal
\* distance come in any order.
QueryResults(index, query_text, k) ==
    LET m == IF k <= Cardinality(index) THEN k ELSE Cardinality(index)
    IN  {hits \in [1..m -> index] :
            /\ \A a, b \in 1..m : a < b =>
                  /\ hits[a] # hits[b]
                  /\ Distance(query_text, hits[a].document)
                        <= Distance(query_text, hits[b].document)
            /\ \A x \in index :
                  (\A a \in 1..m : hits[a] # x) =>
                      \A a \in 1..m : Distance(query_text, hits[a].document)
                                         <= Distance(query_text, x.document)}

(***************************************************************************)
(* ChromaDBHandler                                                         *)
(***************************************************************************)
\* _generate_embeddings(texts): the number of embeddings it returns ([] when
\* the model is not loaded or encode raises).
_generate_embeddings(model, texts, fault) ==
    IF ~model THEN 0
    ELSE IF fault = "encode" THEN 0
    ELSE Len(texts)

\* add_chunks that leaves the comparison of the lengths to the index:
\* collection.add refuses lists of different lengths, after the embeddings were
\* computed.
add_chunks_unvalidated(collection, model, index, texts, metadatas, ids, fault) ==
    IF ~collection
    THEN [ret |-> FALSE, index |-> index, hit |-> FALSE, encoded |-> FALSE]
    ELSE IF ~model
    THEN [ret |-> FALSE, index |-> index, hit |-> FALSE, encoded |-> FALSE]
    ELSE IF _generate_embeddings(model, texts, fault) = 0
    THEN [ret |-> FALSE, index |-> index, hit |-> (fault = "encode"), encoded |-> TRUE]
    ELSE IF fault = "add"
    THEN [ret |-> FALSE, index |-> index, hit |-> TRUE, encoded |-> TRUE]
    ELSE IF ~(Len(texts) = Len(metadatas) /\ Len(metadatas) = Len(ids))
    THEN [ret |-> FALSE, index |-> index, hit |-> FALSE, encoded |-> TRUE]
    ELSE LET result == collection_add(index, texts, metadatas, ids)
         IN  IF result.raised
             THEN [ret |-> FALSE, index |-> index, hit |-> FALSE, encoded |-> TRUE]
             ELSE [ret |-> TRUE, index |-> result.index, hit |-> FALSE, encoded |-> TRUE]

\* add_chunks that stores the chunks it can when the embeddings are missing,
\* instead of returning.
add_chunks_partial(collection, model, index, texts, metadatas, ids, fault) ==
    IF ~collection
    THEN [ret |-> FALSE, index |-> index, hit |-> FALSE, encoded |-> FALSE]
    ELSE IF ~model
    THEN [ret |-> FALSE, index |-> index, hit |-> FALSE, encoded |-> FALSE]
    ELSE IF ~(Len(texts) = Len(metadatas) /\ Len(metadatas) = Len(ids))
    THEN [ret |-> FALSE, index |-> index, hit |-> FALSE, encoded |-> FALSE]
    ELSE IF fault = "add"
    THEN [ret |-> FALSE, index |-> index, hit |-> TRUE, encoded |-> TRUE]
    ELSE LET result == collection_add(index, texts, metadatas, ids)
         IN  IF result.raised
             THEN [ret |-> FALSE, index |-> index, hit |-> FALSE, encoded |-> TRUE]
             ELSE [ret |-> _generate_embeddings(model, texts, fault) # 0,
                   index |-> result.index, hit |-> (fault = "encode"),
                   encoded |-> TRUE]

\* add_chunks(texts, metadatas, ids): the value it returns, the index after
\* it, whether the model or the index failed during the call, and whether
\* model.encode was called. collection and model say whether self.collection
\* and self.model are set.
add_chunks(collection, model, index, texts, metadatas, ids, fault) ==
    IF ~collection
    THEN [ret |-> FALSE, index |-> index, hit |-> FALSE, encoded |-> FALSE]
    ELSE IF ~model
    THEN [ret |-> FALSE, index |-> index, hit |-> FALSE, encoded |-> FALSE]
    ELSE IF ~(Len(texts) = Len(metadatas) /\ Len(metadatas) = Len(ids))
    THEN [ret |-> FALSE, index |-> index, hit |-> FALSE, encoded |-> FALSE]
    ELSE IF _generate_embeddings(model, texts, fault) = 0
    THEN [ret |-> FALSE, index |-> index, hit |-> (fault = "encode"), encoded |-> TRUE]
    ELSE IF fault = "add"
    THEN [ret |-> FALSE, index |-> index, hit |-> TRUE, encoded |-> TRUE]
    ELSE LET result == collection_add(index, texts, metadatas, ids)
         IN  IF result.raised
             THEN [ret |-> FALSE, index |-> index, hit |-> FALSE, encoded |-> TRUE]
             ELSE [ret |-> TRUE, index |-> result.index, hit |-> FALSE, encoded |-> TRUE]

\* What a query_chunks call may meet besides success: model.encode raises, or
\* collection.query raises.
QueryFaults == {"none", "encode", "query"}

\* The dict query_chunks builds from result i.
RetrievedChunk(record, query_text) ==
    [document |-> record.document, metadata |-> record.metadata,
     distance |-> Distance(query_text, record.document)]

\* The list built by the loop over results['documents'][0].
RetrievedChunks(hits, query_text) ==
    [i \in 1..Len(hits) |-> RetrievedChunk(hits[i], query_text)]

\* A query_chunks that hands the results back farthest first.
query_chunks_reversed(collection, model, query_text, n_results, fault, hits) ==
    IF ~collection \/ ~model
    THEN [ret |-> <<>>, hit |-> FALSE, encoded |-> FALSE, queried |-> FALSE]
    ELSE IF _generate_embeddings(model, <<query_text>>, fault) = 0
    THEN [ret |-> <<>>, hit |-> TRUE, encoded |-> TRUE, queried |-> FALSE]
    ELSE IF fault = "query" \/ n_results <= 0
    THEN [ret |-> <<>>, hit |-> (fault = "query"), encoded |-> TRUE, queried |-> TRUE]
    ELSE [ret |-> [i \in 1..Len(hits) |->
                      RetrievedChunk(hits[Len(hits) + 1 - i], query_text)],
          hit |-> FALSE, encoded |-> TRUE, queried |-> TRUE]

\* query_chunks(query_text, n_results): the list it returns, whether the model
\* or the index failed during the call, whether model.encode and
\* collection.query were called. hits is the answer of the index to the query
\* (should it be asked). When the embedding list is empty, indexing it with [0]
\* raises IndexError, caught by the except clause; collection.query raises for
\* n_results <= 0.
query_chunks(collection, model, query_text, n_results, fault, hits) ==
    IF ~collection
    THEN [ret |-> <<>>, hit |-> FALSE, encoded |-> FALSE, queried |-> FALSE]
    ELSE IF ~model
    THEN [ret |-> <<>>, hit |-> FALSE, encoded |-> FALSE, queried |-> FALSE]
    ELSE IF _generate_embeddings(model, <<query_text>>, fault) = 0
    THEN [ret |-> <<>>, hit |-> TRUE, encoded |-> TRUE, queried |-> FALSE]
    ELSE IF fault = "query" \/ n_results <= 0
    THEN [ret |-> <<>>, hit |-> (fault = "query"), encoded |-> TRUE, queried |-> TRUE]
    ELSE [ret |-> RetrievedChunks(hits, query_text),
          hit |-> FALSE, encoded |-> TRUE, queried |-> TRUE]

(***************************************************************************)
(* PubMedIngestor.fetch_and_ingest                                          *)
(***************************************************************************)
\* f"{pmid}_chunk_{j}"
ChunkIdOneBased(pmid, j) == pmid \o "_chunk_" \o ToString(j + 1)

ChunkId(pmid, j) == pmid \o "_chunk_" \o ToString(j)

\* The metadata dict of chunk j of an article.
ChunkMetadata(pmid, j, title) ==
    [article_id |-> pmid, chunk_index |-> j, source |-> "abstract", title |-> title]

\* The four lists fetch_and_ingest fills while it parses.
EmptyLists == [articles |-> <<>>, texts |-> <<>>, metadatas |-> <<>>, ids |-> <<>>]

\* The inner loop, for j, chunk in enumerate(chunks), from position j on.
RECURSIVE AppendChunks(_, _, _, _, _)
AppendChunks(lists, pmid, title, chs, j) ==
    IF j >= Len(chs) THEN lists
    ELSE AppendChunks(
            [lists EXCEPT !.texts = Append(@, chs[j + 1]),
                          !.metadatas = Append(@, ChunkMetadata(pmid, j, title)),
                          !.ids = Append(@, ChunkId(pmid, j))],
            pmid, title, chs, j + 1)

\* An iteration that chunks the abstract before it looks at the PMID: the
\* chunks of a record without PMID stay in the lists.
ParseRecordChunkingFirst(lists, record) ==
    LET pmid == Get(record, "PMID", "")
        title == Get(record, "TI", "No Title Available")
        chs == _chunk_text(Get(record, "AB", NoAbstractAvailable), DefaultChunkSize)
    IN  AppendChunks(IF HasPMID(record)
                     THEN [lists EXCEPT !.articles = Append(@, ArticleData(record))]
                     ELSE lists,
                     pmid, title, chs, 0)

\* One iteration of the outer loop: a record without PMID is skipped.
ParseRecord(lists, record) ==
    IF ~HasPMID(record) THEN lists
    ELSE LET article_data == ArticleData(record)
         IN  AppendChunks([lists EXCEPT !.articles = Append(@, article_data)],
                          article_data._id, article_data.title,
                          _chunk_text(article_data.abstract, DefaultChunkSize), 0)

\* A parsing loop that stops at the first record without PMID.
RECURSIVE ParseRecordsAbortOnBad(_, _, _)
ParseRecordsAbortOnBad(recs, i, lists) ==
    IF i > Len(recs) \/ ~HasPMID(recs[i]) THEN lists
    ELSE ParseRecordsAbortOnBad(recs, i + 1, ParseRecord(lists, recs[i]))

\* The outer loop, for i, record in enumerate(records), from record i on.
RECURSIVE ParseRecords(_, _, _)
ParseRecords(recs, i, lists) ==
    IF i > Len(recs) THEN lists
    ELSE ParseRecords(recs, i + 1, ParseRecord(lists, recs[i]))

\* A log message of the run and the numbers it states:
\*   "skipping"        Skipping article {i+1} due to missing PMID.
\*   "processed"       Processed article {i+1}/...: PMID ...
\*   "insert_attempt"  Attempting to insert {n} articles into MongoDB.
\*   "add_attempt"     Attempting to add {n} chunks to ChromaDB.
\*   "added"           Added {n} chunks to ChromaDB collection ... (add_chunks)
\*   "no_chunks"       No chunks generated for ChromaDB.
\*   "completed"       Ingestion process completed for term: ...
Logged(msg, counts) == [msg |-> msg, counts |-> counts]

\* The messages of the outer loop from record i on (i is 1-based here, as the
\* i+1 of the messages).
RECURSIVE ParseLog(_, _)
ParseLog(recs, i) ==
    IF i > Len(recs) THEN <<>>
    ELSE <<Logged(IF HasPMID(recs[i]) THEN "processed" ELSE "skipping", <<i>>)>>
         \o ParseLog(recs, i + 1)

\* The batches of raw records a fetch may return.
Batches == UNION {[1..k -> RawRecords] : k \in 0..MaxBatch}

\* The record of an add_chunks call.
AddCall(texts, metadatas, ids, fault, ret) ==
    [op |-> "add_chunks", texts |-> texts, metadatas |-> metadatas, ids |-> ids,
     fault |-> fault, ret |-> ret]

\* Every adapter call of the list succeeded: insert_article returned an
\* identifier, add_chunks returned True.
AllSucceeded(log) ==
    \A k \in 1..Len(log) :
        IF log[k].op = "insert_article" THEN log[k].ret # None ELSE log[k].ret

\* fetch_and_ingest(term, max_results) is called: the locals are fresh.
BeginRun ==
    /\ pc \in {"idle", "DONE", "FAILED"}
    /\ run_no < MaxRuns
    /\ pc' = "SEARCHING"
    /\ run_no' = run_no + 1
    /\ at_start' = [mongo |-> mongo_docs, chroma |-> chroma_index]
    /\ records' = <<>>
    /\ articles_to_mongo' = <<>>
    /\ chunks_to_chroma_texts' = <<>>
    /\ chunks_to_chroma_metadatas' = <<>>
    /\ chunks_to_chroma_ids' = <<>>
    /\ next_article' = 0
    /\ calls' = <<>>
    /\ logged' = <<>>
    /\ UNCHANGED <<mongoVars, chromaVars>>

StartRun == BeginRun /\ UNCHANGED prev_run

\* The same call, the run before it being remembered when it completed with
\* every write succeeding.
StartRerun ==
    /\ BeginRun
    /\ prev_run' = IF pc = "DONE" /\ AllSucceeded(calls)
                   THEN [ok |-> TRUE, records |-> records]
                   ELSE NoRun

runLocals == <<records, articles_to_mongo, chunks_to_chroma_texts,
               chunks_to_chroma_metadatas, chunks_to_chroma_ids, next_article,
               calls, run_no, at_start, prev_run, logged>>

\* Step 1: Entrez.esearch / Entrez.read raises; the except clauses log it.
SearchRaises ==
    /\ pc = "SEARCHING"
    /\ pc' = "FAILED"
    /\ UNCHANGED <<runLocals, mongoVars, chromaVars>>

\* Step 1: id_list is empty; the function returns.
SearchFindsNothing ==
    /\ pc = "SEARCHING"
    /\ pc' = "FAILED"
    /\ UNCHANGED <<runLocals, mongoVars, chromaVars>>

\* Step 1: id_list is not empty.
SearchFindsIds ==
    /\ pc = "SEARCHING"
    /\ pc' = "FETCHING"
    /\ UNCHANGED <<runLocals, mongoVars, chromaVars>>

\* Step 2: Entrez.efetch / handle.read raises.
FetchRaises ==
    /\ pc = "FETCHING"
    /\ pc' = "FAILED"
    /\ UNCHANGED <<runLocals, mongoVars, chromaVars>>

\* Step 2: the Medline text is read; records is what Medline.parse yields.
Fetch ==
    /\ pc = "FETCHING"
    /\ \E batch \in Batches : records' = batch
    /\ pc' = "PARSING"
    /\ UNCHANGED <<articles_to_mongo, chunks_to_chroma_texts,
                   chunks_to_chroma_metadatas, chunks_to_chroma_ids, next_article,
                   calls, run_no, at_start, prev_run, logged, mongoVars, chromaVars>>

\* Step 2 where the source is stable: after a run that completed with every
\* write succeeding, the fetch returns the records of that run again.
Refetch ==
    /\ pc = "FETCHING"
    /\ \E batch \in Batches :
          /\ prev_run.ok => batch = prev_run.records
          /\ records' = batch
    /\ pc' = "PARSING"
    /\ UNCHANGED <<articles_to_mongo, chunks_to_chroma_texts,
                   chunks_to_chroma_metadatas, chunks_to_chroma_ids, next_article,
                   calls, run_no, at_start, prev_run, logged, mongoVars, chromaVars>>

\* A parsing loop that hands the chunks to the Vector Store as it goes.
ParseWritingEarly ==
    /\ pc = "PARSING"
    /\ LET lists == ParseRecords(records, 1, EmptyLists)
           out == add_chunks(chroma_collection, chroma_model, chroma_index,
                             lists.texts, lists.metadatas, lists.ids, "none")
       IN  /\ articles_to_mongo' = lists.articles
           /\ chunks_to_chroma_texts' = lists.texts
           /\ chunks_to_chroma_metadatas' = lists.metadatas
           /\ chunks_to_chroma_ids' = lists.ids
           /\ chroma_index' = out.index
           /\ calls' = Append(calls, AddCall(lists.texts, lists.metadatas, lists.ids,
                                             out.hit, out.ret))
           /\ logged' = ParseLog(records, 1) \o <<Logged("insert_attempt", <<Len(lists.articles)>>)>>
    /\ next_article' = 1
    /\ pc' = "DUAL_WRITE"
    /\ UNCHANGED <<records, run_no, at_start, prev_run, mongoVars,
                   chroma_client, chroma_collection, chroma_model,
                   collection_deleted>>

\* The for loop over records.
Parse ==
    /\ pc = "PARSING"
    /\ LET lists == ParseRecords(records, 1, EmptyLists)
       IN  /\ articles_to_mongo' = lists.articles
           /\ chunks_to_chroma_texts' = lists.texts
           /\ chunks_to_chroma_metadatas' = lists.metadatas
           /\ chunks_to_chroma_ids' = lists.ids
           /\ logged' = ParseLog(records, 1) \o <<Logged("insert_attempt", <<Len(lists.articles)>>)>>
    /\ next_article' = 1
    /\ pc' = "DUAL_WRITE"
    /\ UNCHANGED <<records, calls, run_no, at_start, prev_run, mongoVars, chromaVars>>

\* An insert loop that a failed insert ends: the remaining articles are not
\* attempted.
InsertNextStopOnFailure ==
    /\ pc = "DUAL_WRITE"
    /\ next_article <= Len(articles_to_mongo)
    /\ \E fault \in MongoFaults :
          LET article_data == articles_to_mongo[next_article]
              out == insert_article(articles_collection, mongo_docs, article_data, fault)
              call == InsertCall(article_data, out.hit, articles_collection,
                                 mongo_docs, out.ret)
          IN  /\ mongo_docs' = out.docs
              /\ calls' = Append(calls, call)
              /\ next_article' = IF out.ret = None
                                 THEN Len(articles_to_mongo) + 1
                                 ELSE next_article + 1
    /\ UNCHANGED <<pc, records, articles_to_mongo, chunks_to_chroma_texts,
                   chunks_to_chroma_metadatas, chunks_to_chroma_ids, run_no,
                   at_start, prev_run, logged, mongo_client, articles_collection,
                   last_call, chromaVars>>

\* Step 3, one iteration: self.mongo_handler.insert_article(article_data).
InsertNext ==
    /\ pc = "DUAL_WRITE"
    /\ next_article <= Len(articles_to_mongo)
    /\ \E fault \in MongoFaults :
          LET article_data == articles_to_mongo[next_article]
              out == insert_article(articles_collection, mongo_docs, article_data, fault)
              call == InsertCall(article_data, out.hit, articles_collection,
                                 mongo_docs, out.ret)
          IN  /\ mongo_docs' = out.docs
              /\ calls' = Append(calls, call)
    /\ next_article' = next_article + 1
    /\ UNCHANGED <<pc, records, articles_to_mongo, chunks_to_chroma_texts,
                   chunks_to_chroma_metadatas, chunks_to_chroma_ids, run_no,
                   at_start, prev_run, logged, mongo_client, articles_collection,
                   last_call, chromaVars>>

\* Step 4: self.chroma_handler.add_chunks(texts, metadatas, ids), one call.
VectorWrite ==
    /\ pc = "DUAL_WRITE"
    /\ next_article > Len(articles_to_mongo)
    /\ chunks_to_chroma_texts # <<>>
    /\ \E fault \in ChromaFaults :
          LET out == add_chunks(chroma_collection, chroma_model, chroma_index,
                                chunks_to_chroma_texts, chunks_to_chroma_metadatas,
                                chunks_to_chroma_ids, fault)
          IN  /\ chroma_index' = out.index
              /\ calls' = Append(calls, AddCall(chunks_to_chroma_texts,
                                                chunks_to_chroma_metadatas,
                                                chunks_to_chroma_ids, out.hit, out.ret))
              /\ logged' = logged
                    \o <<Logged("add_attempt", <<Len(chunks_to_chroma_texts)>>)>>
                    \o (IF out.ret THEN <<Logged("added", <<Len(chunks_to_chroma_texts)>>)>>
                        ELSE <<>>)
                    \o <<Logged("completed", <<>>)>>
    /\ pc' = "DONE"
    /\ UNCHANGED <<records, articles_to_mongo, chunks_to_chroma_texts,
                   chunks_to_chroma_metadatas, chunks_to_chroma_ids, next_article,
                   run_no, at_start, prev_run, mongoVars,
                   chroma_client, chroma_collection, chroma_model,
                   collection_deleted>>

\* Step 4, no chunk was generated: a warning, no call.
NoVectorWrite ==
    /\ pc = "DUAL_WRITE"
    /\ next_article > Len(articles_to_mongo)
    /\ chunks_to_chroma_texts = <<>>
    /\ pc' = "DONE"
    /\ logged' = logged \o <<Logged("no_chunks", <<>>), Logged("completed", <<>>)>>
    /\ UNCHANGED <<records, articles_to_mongo, chunks_to_chroma_texts,
                   chunks_to_chroma_metadatas, chunks_to_chroma_ids, next_article,
                   calls, run_no, at_start, prev_run, mongoVars, chromaVars>>

(***************************************************************************)
(* SpecChunk: _chunk_text applied to every text of at most MaxTextLen       *)
(* characters with every window size 1..MaxChunkSize.                       *)
(***************************************************************************)
InitChunk ==
    /\ text \in TextsUpTo(MaxTextLen)
    /\ chunk_size_sentences \in 1..MaxChunkSize
    /\ chunks = <<>>
    /\ returned = FALSE
    /\ mongo_client = FALSE /\ articles_collection = FALSE
    /\ mongo_docs = {} /\ last_call = NoCall
    /\ chroma_client = FALSE /\ chroma_collection = FALSE /\ chroma_model = FALSE
    /\ collection_deleted = FALSE
    /\ chroma_index = {}
    /\ pc = "idle" /\ records = <<>> /\ articles_to_mongo = <<>>
    /\ chunks_to_chroma_texts = <<>> /\ chunks_to_chroma_metadatas = <<>>
    /\ chunks_to_chroma_ids = <<>> /\ next_article = 0 /\ calls = <<>>
    /\ run_no = 0 /\ at_start = NoStores /\ prev_run = NoRun /\ logged = <<>>
    /\ OthersIdle

\* The call self._chunk_text(text, chunk_size_sentences).
ChunkText ==
    /\ ~returned
    /\ chunks' = _chunk_text(text, chunk_size_sentences)
    /\ returned' = TRUE
    /\ UNCHANGED <<text, chunk_size_sentences, mongoVars, chromaVars, runVars, otherVars>>

NextChunk == ChunkText

SpecChunk == InitChunk /\ [][NextChunk]_vars

(***************************************************************************)
(* Claims about _chunk_text (SpecChunk).                                    *)
(***************************************************************************)
Min(a, b) == IF a <= b THEN a ELSE b

\* ceil(n / w) for w >= 1
CeilDiv(n, w) == (n + w - 1) \div w

\* Sentences i*w .. i*w+w-1 (0-based) of sents, as far as they exist.
Window(sents, i, w) == SubSeq(sents, i * w + 1, Min(i * w + w, Len(sents)))

\* The returned list is the windowing of the sentence list sents by window w:
\* ceil(N/w) chunks in order, chunk i the single-space join of its window, every
\* window of w sentences but the last, which has the remaining 1..w.
IsWindowing(out, sents, w) ==
    /\ Len(out) = CeilDiv(Len(sents), w)
    /\ \A i \in 0..(Len(out) - 1) :
          /\ out[i + 1] = join(Window(sents, i, w))
          /\ i < Len(out) - 1 => Len(Window(sents, i, w)) = w
          /\ i = Len(out) - 1 => Len(Window(sents, i, w)) \in 1..w

\* The sentences the boundary rule divides a text into: the pieces of
\* re.split; the empty text has none.
Sentences(t) == IF t = <<>> THEN <<>> ELSE re_split(t)

\* The sentences, each stripped of surrounding whitespace.
StrippedSentences(t) == [k \in 1..Len(Sentences(t)) |-> strip(Sentences(t)[k])]

\* Every sentence of the text holds a character that is not whitespace.
NoBlankSentence(t) ==
    \A k \in 1..Len(Sentences(t)) :
        \E q \in 1..Len(Sentences(t)[k]) : ~IsSpace(Sentences(t)[k][q])

\* C4 as stated: with the sentences being the pieces the boundary rule divides
\* the text into, _chunk_text returns the windowing of those pieces (ceil(N/W)
\* chunks, chunk i the single-space join of sentences i*W .. i*W+W-1). Stated
\* for the texts that have no blank sentence (blank ones are the case of C5
\* and C6).
C4_WindowsOfRawSentences ==
    (returned /\ NoBlankSentence(text)) =>
        IsWindowing(chunks, Sentences(text), chunk_size_sentences)

\* C4 (amended): for every text that the boundary rule divides into N
\* sentences and every W >= 1, _chunk_text returns exactly ceil(N/W) chunks in
\* order; chunk i is the single-space join of sentences i*W .. i*W+W-1, each
\* stripped of its leading and trailing whitespace; every chunk holds W
\* sentences except the last, which holds the remaining 1..W.
C4_WindowsOfStrippedSentences ==
    returned => IsWindowing(chunks, StrippedSentences(text), chunk_size_sentences)

\* C4 witness: three sentences, the first with leading whitespace, W = 2: two
\* chunks, the last holding one sentence.
C4_Witness ==
    /\ returned
    /\ chunk_size_sentences = 2
    /\ Len(Sentences(text)) = 3
    /\ IsSpace(text[1])
    /\ Len(chunks) = 2
    /\ chunks[2] = StrippedSentences(text)[3]

IsBlank(t) == \A k \in 1..Len(t) : IsSpace(t[k])

\* C5: _chunk_text returns the empty sequence for every input that is empty or
\* consists only of whitespace characters.
C5_BlankTextYieldsNoChunks ==
    (returned /\ IsBlank(text)) => chunks = <<>>

\* C6: every element of the sequence _chunk_text returns is a non-empty
\* string, and no chunk is built from an empty sentence.
C6_ChunksNonEmpty ==
    returned =>
        /\ \A k \in 1..Len(chunks) : chunks[k] # <<>>
        /\ \A k \in 1..Len(Sentences(text)) : StrippedSentences(text)[k] # <<>>

(***************************************************************************)
(* SpecStore: the MongoDBHandler operations called directly, in any order.  *)
(***************************************************************************)
RunIdle ==
    /\ pc = "idle" /\ records = <<>> /\ articles_to_mongo = <<>>
    /\ chunks_to_chroma_texts = <<>> /\ chunks_to_chroma_metadatas = <<>>
    /\ chunks_to_chroma_ids = <<>> /\ next_article = 0 /\ calls = <<>>
    /\ run_no = 0 /\ at_start = NoStores /\ prev_run = NoRun /\ logged = <<>>

InitStore ==
    /\ ChunkIdle
    /\ mongo_client = FALSE /\ articles_collection = FALSE
    /\ mongo_docs = {} /\ last_call = NoCall
    /\ chroma_client = FALSE /\ chroma_collection = FALSE /\ chroma_model = FALSE
    /\ collection_deleted = FALSE
    /\ chroma_index = {}
    /\ RunIdle
    /\ OthersIdle

NextStore ==
    \/ MongoConnectOk /\ UNCHANGED <<chunkVars, chromaVars, runVars, otherVars>>
    \/ MongoConnectFail /\ UNCHANGED <<chunkVars, chromaVars, runVars, otherVars>>
    \/ MongoDisconnect /\ UNCHANGED <<chunkVars, chromaVars, runVars, otherVars>>
    \/ InsertArticle /\ UNCHANGED <<chunkVars, chromaVars, runVars, otherVars>>
    \/ ClearDatabase /\ UNCHANGED <<chunkVars, chromaVars, runVars, otherVars>>

SpecStore == InitStore /\ [][NextStore]_vars

(***************************************************************************)
(* Claims about the Metadata Store adapter (SpecStore).                     *)
(***************************************************************************)
\* The stored documents carrying identifier id.
WithId(docs, id) == {d \in docs : d._id = id}

\* The latest call was insert_article with an identifier, on a collection
\* reference that is set, and the store served it without raising.
InsertServed ==
    /\ last_call.op = "insert_article"
    /\ last_call.arg._id # Absent
    /\ last_call.collection
    /\ ~last_call.fault

\* C1: insert is idempotent on the identifier: no identifier is ever stored
\* twice; after an insert_article call the connected store served, the store
\* holds exactly one Article with the call's identifier and the call returned
\* that identifier; a call whose identifier was already stored returns the
\* identifier, not the failure value.
C1_InsertIdempotent ==
    /\ \A d \in mongo_docs : Cardinality(WithId(mongo_docs, d._id)) = 1
    /\ InsertServed =>
          /\ Cardinality(WithId(mongo_docs, last_call.arg._id)) = 1
          /\ last_call.ret = last_call.arg._id
          /\ last_call.ret # None

\* C1 witness: a served insert_article call whose identifier was stored before
\* the call, with different data, has returned the identifier.
C1_Witness ==
    /\ InsertServed
    /\ WithId(last_call.before, last_call.arg._id) # {}
    /\ last_call.arg \notin last_call.before
    /\ last_call.ret = last_call.arg._id
    /\ Cardinality(WithId(mongo_docs, last_call.arg._id)) = 1

\* C2: insertion is skip-on-conflict, never overwrite: a step made by an
\* insert_article call whose identifier is already stored leaves the whole
\* store unchanged, whatever the new data; and a stored Article leaves the
\* store or changes only in a step made by clear_database.
C2_SkipOnConflict ==
    [][ /\ ( /\ last_call'.op = "insert_article"
             /\ last_call'.before = mongo_docs
             /\ last_call'.arg._id # Absent
             /\ WithId(mongo_docs, last_call'.arg._id) # {} )
           => mongo_docs' = mongo_docs
        /\ (\E d \in mongo_docs : d \notin mongo_docs')
           => last_call'.op = "clear_database"
      ]_vars

\* C2 witness: an insert_article call carrying a stored identifier with other
\* data has returned and the stored Article is the one stored before.
C2_Witness ==
    /\ last_call.op = "insert_article"
    /\ ~last_call.fault
    /\ \E d \in last_call.before :
          /\ d._id = last_call.arg._id
          /\ d.title # last_call.arg.title
          /\ d.abstract # last_call.arg.abstract
          /\ d \in mongo_docs
    /\ mongo_docs = last_call.before

\* C13: insert_article on an unavailable Metadata Store (the handler holds no
\* collection reference: never connected or the connection failed; or the
\* store fails the call: connection lost) writes nothing and returns None,
\* which is distinct from what it returns for an already-existing record (the
\* record's identifier, never None).
C13_UnavailableIsNotSkip ==
    last_call.op = "insert_article" =>
        /\ (~last_call.collection \/ last_call.fault) =>
              /\ mongo_docs = last_call.before
              /\ last_call.ret = None
              /\ last_call.ret # last_call.arg._id
        /\ (InsertServed /\ WithId(last_call.before, last_call.arg._id) # {}) =>
              /\ last_call.ret = last_call.arg._id
              /\ last_call.ret # None

\* C13 witness: the store failed an insert_article call whose identifier it
\* holds (the connection was lost after an earlier insert); the call returned
\* None and the store is as it was.
C13_Witness ==
    /\ last_call.op = "insert_article"
    /\ last_call.collection
    /\ last_call.fault
    /\ WithId(last_call.before, last_call.arg._id) # {}
    /\ last_call.ret = None
    /\ mongo_docs = last_call.before


\* C28: whatever connect (successful or failed) and disconnect calls were made
\* on the handler, its collection reference is set only while its client is
\* set; so a call of insert_article or clear_database made while the client is
\* not set takes the not-connected path and makes no call on the store.
C28_CollectionOnlyWithClient ==
    /\ articles_collection => mongo_client
    /\ (last_call.op \in {"insert_article", "clear_database"} /\ ~mongo_client)
          => ~last_call.collection

(***************************************************************************)
(* Spec: runs of fetch_and_ingest, one after the other, on the handlers as  *)
(* the application start-up (lifespan) left them: each store connected or   *)
(* not.                                                                     *)
(***************************************************************************)
Init ==
    /\ ChunkIdle
    /\ \E ok \in BOOLEAN : mongo_client = ok /\ articles_collection = ok
    /\ mongo_docs = {} /\ last_call = NoCall
    /\ \E ok \in BOOLEAN :
          chroma_client = ok /\ chroma_collection = ok /\ chroma_model = ok
    /\ collection_deleted = FALSE
    /\ chroma_index = {}
    /\ RunIdle
    /\ OthersIdle

Next ==
    \/ StartRun /\ UNCHANGED <<chunkVars, otherVars>>
    \/ SearchRaises /\ UNCHANGED <<chunkVars, otherVars>>
    \/ SearchFindsNothing /\ UNCHANGED <<chunkVars, otherVars>>
    \/ SearchFindsIds /\ UNCHANGED <<chunkVars, otherVars>>
    \/ FetchRaises /\ UNCHANGED <<chunkVars, otherVars>>
    \/ Fetch /\ UNCHANGED <<chunkVars, otherVars>>
    \/ Parse /\ UNCHANGED <<chunkVars, otherVars>>
    \/ InsertNext /\ UNCHANGED <<chunkVars, otherVars>>
    \/ VectorWrite /\ UNCHANGED <<chunkVars, otherVars>>
    \/ NoVectorWrite /\ UNCHANGED <<chunkVars, otherVars>>

Spec == Init /\ [][Next]_vars

(***************************************************************************)
(* SpecRerun: the runs of Spec against a stable source: once a run has      *)
(* completed with every write succeeding, the next fetch returns the same   *)
(* raw records.                                                            *)
(***************************************************************************)
NextRerun ==
    \/ StartRerun /\ UNCHANGED <<chunkVars, otherVars>>
    \/ SearchRaises /\ UNCHANGED <<chunkVars, otherVars>>
    \/ SearchFindsNothing /\ UNCHANGED <<chunkVars, otherVars>>
    \/ SearchFindsIds /\ UNCHANGED <<chunkVars, otherVars>>
    \/ FetchRaises /\ UNCHANGED <<chunkVars, otherVars>>
    \/ Refetch /\ UNCHANGED <<chunkVars, otherVars>>
    \/ Parse /\ UNCHANGED <<chunkVars, otherVars>>
    \/ InsertNext /\ UNCHANGED <<chunkVars, otherVars>>
    \/ VectorWrite /\ UNCHANGED <<chunkVars, otherVars>>
    \/ NoVectorWrite /\ UNCHANGED <<chunkVars, otherVars>>

SpecRerun == Init /\ [][NextRerun]_vars

(***************************************************************************)
(* SpecRace: two fetch_and_ingest calls (two requests served by different   *)
(* processes of the application) write to the same stores at the same time. *)
(* Both have parsed their batch; insert_article is the two store calls it   *)
(* makes, find_one and insert_one, and the calls of the two runs interleave.*)
(* The stores are connected and serve every call.                           *)
(***************************************************************************)
\* The two runs.
Runs == {1, 2}

\* The batches of the two runs: MaxBatch records that have a PMID.
RaceBatches ==
    {b \in Batches : Len(b) = MaxBatch /\ \A k \in 1..Len(b) : HasPMID(b[k])}

\* A run whose parsing loop has ended, before its first insert_article call.
\* rets are the values its insert_article calls returned so far, vector says
\* whether it called add_chunks and what that returned.
Parsed(batch) ==
    LET lists == ParseRecords(batch, 1, EmptyLists)
    IN  [pc |-> IF lists.articles = <<>> THEN "VECTOR" ELSE "FIND",
         next |-> 1, lists |-> lists, rets |-> <<>>,
         vector |-> [called |-> FALSE, ret |-> FALSE]]

\* insert_article has returned ret: the for loop goes to the next article.
Returned(w, ret) ==
    [w EXCEPT !.rets = Append(@, ret),
              !.next = @ + 1,
              !.pc = IF w.next + 1 > Len(w.lists.articles) THEN "VECTOR" ELSE "FIND"]

InitRace ==
    /\ ChunkIdle
    /\ mongo_client = TRUE /\ articles_collection = TRUE
    /\ mongo_docs = {} /\ last_call = NoCall
    /\ chroma_client = TRUE /\ chroma_collection = TRUE /\ chroma_model = TRUE
    /\ collection_deleted = FALSE
    /\ chroma_index = {}
    /\ RunIdle
    /\ workers \in {[p \in Runs |-> Parsed(b[p])] : b \in [Runs -> RaceBatches]}
    /\ response = NoCall /\ vector_call = NoCall /\ graph_call = NoCall
    /\ EntrezIdle

raceFrame == <<chunkVars, mongo_client, articles_collection, last_call,
               chroma_client, chroma_collection, chroma_model, collection_deleted,
               runVars,
               response, vector_call, graph_call, entrezVars>>

\* insert_article up to the existence check: find_one, and the return when the
\* article exists.
RaceFind(p) ==
    /\ workers[p].pc = "FIND"
    /\ LET w == workers[p]
           article_data == w.lists.articles[w.next]
       IN  workers' = [workers EXCEPT ![p] =
                          IF find_one(mongo_docs, article_data._id).found
                          THEN Returned(w, article_data._id)
                          ELSE [w EXCEPT !.pc = "INSERT"]]
    /\ UNCHANGED <<mongo_docs, chroma_index, raceFrame>>

\* An insert whose DuplicateKeyError leaves insert_article and ends the run.
RaceInsertHalting(p) ==
    /\ workers[p].pc = "INSERT"
    /\ LET w == workers[p]
           article_data == w.lists.articles[w.next]
           result == insert_one(mongo_docs, article_data)
       IN  /\ mongo_docs' = result.docs
           /\ workers' = [workers EXCEPT ![p] =
                             IF result.raised
                             THEN [w EXCEPT !.rets = Append(@, None), !.pc = "HALTED"]
                             ELSE Returned(w, article_data._id)]
    /\ UNCHANGED <<chroma_index, raceFrame>>

\* insert_article after the check found nothing: insert_one; a
\* DuplicateKeyError (the other run inserted the identifier meanwhile) is
\* caught and None returned.
RaceInsert(p) ==
    /\ workers[p].pc = "INSERT"
    /\ LET w == workers[p]
           article_data == w.lists.articles[w.next]
           result == insert_one(mongo_docs, article_data)
       IN  /\ mongo_docs' = result.docs
           /\ workers' = [workers EXCEPT ![p] =
                             Returned(w, IF result.raised THEN None
                                         ELSE article_data._id)]
    /\ UNCHANGED <<chroma_index, raceFrame>>

\* Step 4 of the run: one add_chunks call, or none when it has no chunk.
RaceVectorWrite(p) ==
    /\ workers[p].pc = "VECTOR"
    /\ LET w == workers[p]
           out == add_chunks(chroma_collection, chroma_model, chroma_index,
                             w.lists.texts, w.lists.metadatas, w.lists.ids, "none")
       IN  IF w.lists.texts # <<>>
           THEN /\ chroma_index' = out.index
                /\ workers' = [workers EXCEPT ![p] =
                                  [w EXCEPT !.pc = "DONE",
                                            !.vector = [called |-> TRUE, ret |-> out.ret]]]
           ELSE /\ chroma_index' = chroma_index
                /\ workers' = [workers EXCEPT ![p] = [w EXCEPT !.pc = "DONE"]]
    /\ UNCHANGED <<mongo_docs, raceFrame>>

NextRace ==
    \/ \E p \in Runs : RaceFind(p)
    \/ \E p \in Runs : RaceInsert(p)
    \/ \E p \in Runs : RaceVectorWrite(p)

SpecRace == InitRace /\ [][NextRace]_vars

\* The articles of a run.
ArticlesOf(w) == {w.lists.articles[k] : k \in 1..Len(w.lists.articles)}

\* C12: under every interleaving of two runs the race on the existence check
\* is benign. After every step: a stored Article is never changed or removed,
\* the store holds at most one Article per identifier, and each is, whole, the
\* article of one of the runs; an insert_article call that loses the race
\* (returns None) leaves the store as it was and its run goes on to the next
\* insert or to the vector write. When both runs are done, each has made one
\* insert_article call per parsed Article and its vector write (when it has
\* chunks), and every identifier of either run is stored exactly once.
C12_BenignRace ==
    [][ /\ \A d \in mongo_docs : d \in mongo_docs'
        /\ \A d \in mongo_docs' :
              /\ Cardinality(WithId(mongo_docs', d._id)) = 1
              /\ \E p \in Runs : d \in ArticlesOf(workers'[p])
        /\ \A p \in Runs :
              ( /\ Len(workers'[p].rets) > Len(workers[p].rets)
                /\ workers'[p].rets[Len(workers'[p].rets)] = None )
              => /\ mongo_docs' = mongo_docs
                 /\ workers'[p].pc \in {"FIND", "VECTOR"}
                 /\ workers'[p].next = workers[p].next + 1
        /\ (\A p \in Runs : workers'[p].pc = "DONE") =>
              \A p \in Runs :
                 /\ Len(workers'[p].rets) = Len(workers'[p].lists.articles)
                 /\ workers'[p].vector.called = (workers'[p].lists.texts # <<>>)
                 /\ \A a \in ArticlesOf(workers'[p]) :
                       Cardinality(WithId(mongo_docs', a._id)) = 1
      ]_vars

\* C12 witness: both runs are done; the first insert of run 1 lost the race
\* against run 2's insert of the same identifier with other data; run 2's
\* Article is the one stored, and both runs made their vector write.
C12_Witness ==
    /\ workers # <<>>
    /\ \A p \in Runs : workers[p].pc = "DONE" /\ workers[p].vector.called
    /\ workers[1].rets[1] = None
    /\ workers[1].lists.articles[1]._id = workers[2].lists.articles[1]._id
    /\ workers[1].lists.articles[1] # workers[2].lists.articles[1]
    /\ workers[2].lists.articles[1] \in mongo_docs
    /\ workers[1].lists.articles[1] \notin mongo_docs

(***************************************************************************)
(* SpecVector: the ChromaDBHandler operations called directly, in any       *)
(* order, with lists of any lengths up to MaxAdd.                           *)
(***************************************************************************)
\* The chunks of the calls: chunk k of article "1" has identifier VecId(k),
\* text VecText(k) and metadata VecMetadata(k); the texts have different
\* lengths (1, 4, 9, ...).
VecId(k) == ChunkId("1", k - 1)

VecText(k) == [i \in 1..(k * k) |-> "a"]

VecMetadata(k) == ChunkMetadata("1", k - 1, "T1")

\* The query texts: at distances 0, 9, 64 and at distances 16, 1, 16 of the
\* first three chunk texts.
VecQueries == {VecText(1), <<"a", "a", "a", "a", ".">>}

\* The list s without its last element when the call's lists differ in this
\* one (short names the list that is shorter).
CutIf(s, short, which) ==
    IF short = which /\ s # <<>> THEN SubSeq(s, 1, Len(s) - 1) ELSE s

\* connect(): the client, the collection and the model are obtained ...
ChromaConnectOk ==
    /\ chroma_client' = TRUE
    /\ chroma_collection' = TRUE
    /\ chroma_model' = TRUE
    /\ collection_deleted' = FALSE
    /\ UNCHANGED <<chroma_index, vector_call>>

\* ... or one of the three raises: all three attributes are reset.
ChromaConnectFail ==
    /\ chroma_client' = FALSE
    /\ chroma_collection' = FALSE
    /\ chroma_model' = FALSE
    /\ collection_deleted' = FALSE
    /\ UNCHANGED <<chroma_index, vector_call>>

\* disconnect()
ChromaDisconnect ==
    /\ chroma_client \/ chroma_collection \/ chroma_model
    /\ chroma_client' = FALSE
    /\ chroma_collection' = FALSE
    /\ chroma_model' = FALSE
    /\ collection_deleted' = FALSE
    /\ UNCHANGED <<chroma_index, vector_call>>

\* What a call on the collection meets: the index raises on every call made
\* through a reference to a deleted collection.
Met(fault, raising) ==
    IF collection_deleted /\ fault = "none" THEN raising ELSE fault

\* A call of add_chunks(texts, metadatas, ids) on the handler: n consecutive
\* chunks from the first or the second chunk on (one chunk n times when
\* repeat), one of the three lists possibly shorter than the others.
AddChunks ==
    \E first \in {1, 2}, n \in 0..MaxAdd, repeat \in BOOLEAN,
       short \in {"none", "texts", "metadatas", "ids"}, fault \in ChromaFaults :
        /\ first + n - 1 <= MaxAdd
        /\ repeat => (n = 2 /\ short = "none")
        /\ LET at(k) == IF repeat THEN first ELSE first + k - 1
               texts == CutIf([k \in 1..n |-> VecText(at(k))], short, "texts")
               metadatas == CutIf([k \in 1..n |-> VecMetadata(at(k))], short, "metadatas")
               ids == CutIf([k \in 1..n |-> VecId(at(k))], short, "ids")
               out == add_chunks(chroma_collection, chroma_model, chroma_index,
                                 texts, metadatas, ids, Met(fault, "add"))
           IN  /\ chroma_index' = out.index
               /\ vector_call' = [op |-> "add_chunks", texts |-> texts,
                                  metadatas |-> metadatas, ids |-> ids,
                                  fault |-> Met(fault, "add"),
                                  collection |-> chroma_collection,
                                  model |-> chroma_model, before |-> chroma_index,
                                  encoded |-> out.encoded, ret |-> out.ret]
               /\ UNCHANGED <<chroma_client, chroma_collection, chroma_model,
                              collection_deleted>>

\* A call of query_chunks(query_text, n_results) on the handler.
QueryChunks ==
    \E query_text \in VecQueries, n_results \in 0..MaxResults, fault \in QueryFaults :
        \E hits \in QueryResults(chroma_index, query_text, n_results) :
            LET out == query_chunks(chroma_collection, chroma_model, query_text,
                                    n_results, Met(fault, "query"), hits)
            IN  /\ vector_call' = [op |-> "query_chunks", query_text |-> query_text,
                                   n_results |-> n_results,
                                   fault |-> Met(fault, "query"),
                                   collection |-> chroma_collection,
                                   model |-> chroma_model, before |-> chroma_index,
                                   encoded |-> out.encoded, queried |-> out.queried,
                                   ret |-> out.ret]
                /\ UNCHANGED chromaVars

\* clear_collection(): the collection reference, whether the collection it
\* refers to was deleted, and the records of the index after the call. Without
\* client nothing happens. delete_collection raises ("delete", or because the
\* collection is not there any more): nothing changes. delete_collection
\* succeeds and get_or_create_collection raises ("create"): the records are
\* gone and self.collection keeps the reference to the deleted collection.
clear_collection(client, collection, deleted, index, fault) ==
    IF ~client
    THEN [collection |-> collection, deleted |-> deleted, index |-> index]
    ELSE IF deleted \/ fault = "delete"
    THEN [collection |-> collection, deleted |-> deleted, index |-> index]
    ELSE IF fault = "create"
    THEN [collection |-> collection, deleted |-> collection, index |-> {}]
    ELSE [collection |-> TRUE, deleted |-> FALSE, index |-> {}]

\* A call of clear_collection() on the handler.
ClearCollection ==
    \E fault \in {"none", "delete", "create"} :
        LET out == clear_collection(chroma_client, chroma_collection,
                                    collection_deleted, chroma_index, fault)
        IN  /\ chroma_index' = out.index
            /\ chroma_collection' = out.collection
            /\ collection_deleted' = out.deleted
            /\ vector_call' = [op |-> "clear_collection", fault |-> fault,
                               before |-> chroma_index]
            /\ UNCHANGED <<chroma_client, chroma_model>>

InitVector ==
    /\ ChunkIdle
    /\ mongo_client = FALSE /\ articles_collection = FALSE
    /\ mongo_docs = {} /\ last_call = NoCall
    /\ chroma_client = FALSE /\ chroma_collection = FALSE /\ chroma_model = FALSE
    /\ collection_deleted = FALSE
    /\ chroma_index = {}
    /\ RunIdle
    /\ OthersIdle

vectorFrame ==
    <<chunkVars, mongoVars, runVars, workers, response, graph_call, entrezVars>>

NextVector ==
    \/ ChromaConnectOk /\ UNCHANGED vectorFrame
    \/ ChromaConnectFail /\ UNCHANGED vectorFrame
    \/ ChromaDisconnect /\ UNCHANGED vectorFrame
    \/ AddChunks /\ UNCHANGED vectorFrame
    \/ QueryChunks /\ UNCHANGED vectorFrame
    \/ ClearCollection /\ UNCHANGED vectorFrame

SpecVector == InitVector /\ [][NextVector]_vars

(***************************************************************************)
(* Claims about the Vector Store adapter (SpecVector).                      *)
(***************************************************************************)
\* The three lists of the latest add_chunks call have one length.
SameLengths ==
    /\ Len(vector_call.texts) = Len(vector_call.metadatas)
    /\ Len(vector_call.metadatas) = Len(vector_call.ids)

\* C16: an add_chunks call whose ids, texts and metadatas do not all have the
\* same length is rejected before any I/O: it returns False, model.encode was
\* not called, and the index holds what it held before the call.
C16_MismatchRejected ==
    (vector_call.op = "add_chunks" /\ ~SameLengths) =>
        /\ ~vector_call.ret
        /\ ~vector_call.encoded
        /\ chroma_index = vector_call.before

\* C16 witness: a connected handler with a non-empty index was given two
\* identifiers and one text, with nothing failing, and returned False.
C16_Witness ==
    /\ vector_call.op = "add_chunks"
    /\ vector_call.collection /\ vector_call.model
    /\ vector_call.fault = "none"
    /\ Len(vector_call.ids) = 2 /\ Len(vector_call.texts) = 1
    /\ vector_call.before # {}
    /\ ~vector_call.ret
    /\ chroma_index = vector_call.before

\* The embedding generation of the latest call failed: the model is not
\* loaded, encode raised, or the list of texts is empty.
EmbeddingFailed ==
    \/ ~vector_call.model
    \/ vector_call.fault = "encode"
    \/ vector_call.op = "add_chunks" /\ vector_call.texts = <<>>

\* C17: embedding failure short-circuits the enclosing call: add_chunks then
\* writes no chunk and returns False, query_chunks makes no index query and
\* returns the empty list; and an add_chunks call leaves the index as it was or
\* holding every identifier of the batch, never a part of it.
C17_EmbeddingFailureShortCircuits ==
    /\ (vector_call.op = "add_chunks" /\ EmbeddingFailed) =>
          /\ ~vector_call.ret
          /\ chroma_index = vector_call.before
    /\ (vector_call.op = "query_chunks" /\ EmbeddingFailed) =>
          /\ ~vector_call.queried
          /\ vector_call.ret = <<>>
    /\ vector_call.op = "add_chunks" =>
          \/ chroma_index = vector_call.before
          \/ /\ vector_call.ret
             /\ \A k \in 1..Len(vector_call.ids) :
                   \E x \in chroma_index : x.id = vector_call.ids[k]

\* C17 witness: encode raised in an add_chunks call with two new chunks on a
\* connected handler; the call returned False and the index is as before.
C17_Witness ==
    /\ vector_call.op = "add_chunks"
    /\ vector_call.collection /\ vector_call.model
    /\ vector_call.fault = "encode"
    /\ SameLengths
    /\ Len(vector_call.ids) = 2
    /\ \A k \in 1..2 : \A x \in vector_call.before : x.id # vector_call.ids[k]
    /\ ~vector_call.ret
    /\ chroma_index = vector_call.before

\* The latest query_chunks call was served: handler connected, nothing raised.
QueryServed ==
    /\ vector_call.op = "query_chunks"
    /\ vector_call.collection /\ vector_call.model
    /\ vector_call.fault = "none"

\* C18: query_chunks(text, k) returns at most k entries; it returns the
\* empty list when the index is empty or the handler is not connected; a served
\* call returns min(k, number of stored chunks) entries, each the document,
\* metadata and distance of a stored chunk, in ascending order of distance, and
\* no stored chunk that is not returned is nearer than a returned one.
C18_NearestFirst ==
    vector_call.op = "query_chunks" =>
        LET ret == vector_call.ret
            q == vector_call.query_text
            stored == vector_call.before
        IN  /\ Len(ret) <= vector_call.n_results
            /\ (stored = {} \/ ~vector_call.collection \/ ~vector_call.model)
                  => ret = <<>>
            /\ QueryServed =>
                  /\ Len(ret) = Min(vector_call.n_results, Cardinality(stored))
                  /\ \A i \in 1..Len(ret) :
                        \E x \in stored : ret[i] = [document |-> x.document,
                                                   metadata |-> x.metadata,
                                                   distance |-> Distance(q, x.document)]
                  /\ \A i, j \in 1..Len(ret) :
                        i < j => ret[i].distance <= ret[j].distance
                  /\ \A x \in stored :
                        \/ \E i \in 1..Len(ret) : /\ ret[i].document = x.document
                                                  /\ ret[i].metadata = x.metadata
                        \/ \A i \in 1..Len(ret) : ret[i].distance <= Distance(q, x.document)

\* C18 witness: the index holds three chunks at three different distances and
\* query_chunks(text, 2) returned the two nearest, nearest first.
C18_Witness ==
    /\ QueryServed
    /\ vector_call.n_results = 2
    /\ Cardinality(vector_call.before) = 3
    /\ Len(vector_call.ret) = 2
    /\ vector_call.ret[1].distance < vector_call.ret[2].distance
    /\ \E x \in vector_call.before :
          vector_call.ret[2].distance < Distance(vector_call.query_text, x.document)


\* C29: whatever connect, disconnect, add_chunks, query_chunks and
\* clear_collection calls were made on the handler, and whichever of the calls
\* underneath failed, client, collection and model are all set or all unset,
\* and a collection reference that is set refers to a collection that exists in
\* the index, never to a deleted one.
C29_ReferencesConsistent ==
    /\ chroma_client = chroma_collection
    /\ chroma_collection = chroma_model
    /\ chroma_collection => ~collection_deleted

(***************************************************************************)
(* SpecGraph: get_author_network_data called on a store that holds up to    *)
(* MaxArticles Articles, with every filter of GraphFilters.                 *)
(***************************************************************************)
\* The author lists of the stored Articles: none, one, two and three authors,
\* in and out of name order, and lists in which a name occurs twice.
AuthorLists ==
    { <<>>, <<"X">>, <<"X", "Y">>, <<"Y", "X">>, <<"Y", "Z">>, <<"Z", "X", "Y">>,
      <<"X", "X">>, <<"X", "Y", "X">> }

\* Article k with the given authors, as insert_article stores it.
GraphArticle(k, authors) ==
    [_id |-> ToString(k), title |-> "T" \o ToString(k), abstract |-> ShortAbstract,
     authors |-> authors, publication_date |-> None, source |-> "PubMed"]

\* The contents of the store: any of the Articles 1..MaxArticles, each with any
\* of the author lists.
GraphStores ==
    UNION {{{GraphArticle(k, au[k]) : k \in ids} : au \in [ids -> AuthorLists]} :
              ids \in SUBSET (1..MaxArticles)}

\* The filters of the calls: none, the empty list, one stored identifier, a
\* stored identifier and one that is not stored.
GraphFilters ==
    { NoFilter,
      [given |-> TRUE, ids |-> <<>>],
      [given |-> TRUE, ids |-> <<"1">>],
      [given |-> TRUE, ids |-> <<"2", "0">>] }

InitGraph ==
    /\ ChunkIdle
    /\ \E ok \in BOOLEAN : mongo_client = ok /\ articles_collection = ok
    /\ mongo_docs \in GraphStores
    /\ last_call = NoCall
    /\ chroma_client = FALSE /\ chroma_collection = FALSE /\ chroma_model = FALSE
    /\ collection_deleted = FALSE
    /\ chroma_index = {}
    /\ RunIdle
    /\ OthersIdle

NextGraph ==
    /\ GetAuthorNetworkData(GraphFilters)
    /\ UNCHANGED <<chunkVars, chromaVars, runVars, workers, response, vector_call,
                   entrezVars>>

SpecGraph == InitGraph /\ [][NextGraph]_vars

(***************************************************************************)
(* Claims about the co-authorship graph (SpecGraph).                        *)
(***************************************************************************)
\* The latest graph call was served: collection reference set, find did not
\* raise.
GraphServed ==
    /\ graph_call.op = "get_author_network_data"
    /\ graph_call.collection
    /\ graph_call.fault = "none"

\* The links of a graph, as a set.
LinkSet(g) == {g.links[k] : k \in 1..Len(g.links)}

\* The entries of a link's article list, as a set.
Entries(link) == {link.articles[k] : k \in 1..Len(link.articles)}

\* C19: for an Article with n >= 2 authors the graph has a link for every
\* unordered pair of its authors, with source lexicographically before target,
\* that lists the article's identifier and title; an Article with zero or one
\* author is listed by no link and each of its authors is a node.
C19_LinkPerAuthorPair ==
    GraphServed =>
        \A i \in 1..Len(graph_call.cursor) :
            LET article == graph_call.cursor[i]
                authors == article.authors
                entry == [pmid |-> article._id, title |-> article.title]
            IN  /\ Len(authors) >= 2 =>
                      \A a, b \in 1..Len(authors) :
                          a < b =>
                              \E l \in LinkSet(graph_call.ret) :
                                  /\ {l.source, l.target} = {authors[a], authors[b]}
                                  /\ Before(l.source, l.target)
                                  /\ entry \in Entries(l)
                /\ Len(authors) <= 1 =>
                      /\ \A l \in LinkSet(graph_call.ret) : entry \notin Entries(l)
                      /\ \A a \in 1..Len(authors) :
                            \E k \in 1..Len(graph_call.ret.nodes) :
                                graph_call.ret.nodes[k].id = authors[a]

\* The orderings of a list.
Perms(s) ==
    {[k \in 1..Len(s) |-> s[f[k]]] :
        f \in {g \in [1..Len(s) -> 1..Len(s)] :
                  \A a, b \in 1..Len(s) : a # b => g[a] # g[b]}}

\* C20: the links do not depend on the stored author order: permuting the
\* author list of any Article the call read yields the same set of links (same
\* endpoints, same contributing articles); and two Articles that list the same
\* two co-authors in opposite order contribute to one single link, whose
\* article list holds both.
C20_LinksIndependentOfAuthorOrder ==
    GraphServed =>
        LET cursor == graph_call.cursor
            links == LinkSet(graph_call.ret)
        IN  /\ \A i \in 1..Len(cursor) :
                  \A p \in Perms(cursor[i].authors) :
                      LinkSet(get_author_network_data(
                                  TRUE, [cursor EXCEPT ![i].authors = p], "none"))
                        = links
            /\ \A i, j \in 1..Len(cursor) :
                  ( /\ i # j
                    /\ Len(cursor[i].authors) = 2
                    /\ cursor[i].authors[1] # cursor[i].authors[2]
                    /\ cursor[j].authors = <<cursor[i].authors[2], cursor[i].authors[1]>> )
                  => /\ Cardinality({l \in links : {l.source, l.target}
                                        = {cursor[i].authors[1], cursor[i].authors[2]}}) = 1
                     /\ \E l \in links :
                           /\ [pmid |-> cursor[i]._id, title |-> cursor[i].title]
                                 \in Entries(l)
                           /\ [pmid |-> cursor[j]._id, title |-> cursor[j].title]
                                 \in Entries(l)

\* C20 witness: the call read an Article by (Y, X) and then one by (X, Y) and
\* returned the single link X--Y listing both.
C20_Witness ==
    /\ GraphServed
    /\ Len(graph_call.cursor) = 2
    /\ graph_call.cursor[1].authors = <<"Y", "X">>
    /\ graph_call.cursor[2].authors = <<"X", "Y">>
    /\ Len(graph_call.ret.links) = 1
    /\ graph_call.ret.links[1].source = "X"
    /\ graph_call.ret.links[1].target = "Y"
    /\ Len(graph_call.ret.links[1].articles) = 2

\* C21: whatever the store holds (author lists of any length, with any names),
\* no link of the returned graph has the same author as source and as target.
C21_NoSelfLink ==
    GraphServed =>
        \A l \in LinkSet(graph_call.ret) : l.source # l.target

\* The identifier of a document is an element of the filter list.
InFilter(d, article_pmids) ==
    \E k \in 1..Len(article_pmids.ids) : article_pmids.ids[k] = d._id

\* The names of a graph's nodes.
NodeNames(g) == {g.nodes[k].id : k \in 1..Len(g.nodes)}

\* C27: when a filter list is given (whatever it holds: stored identifiers,
\* identifiers of no article, or nothing at all), every node and every article
\* entry of a link comes from a stored Article whose identifier is in the list;
\* when no filter is given, every stored Article contributes its authors as
\* nodes.
C27_FilterRestricts ==
    GraphServed =>
        LET article_pmids == graph_call.article_pmids
            stored == graph_call.before
            allowed == {d \in stored : InFilter(d, article_pmids)}
        IN  IF article_pmids.given
            THEN /\ \A n \in NodeNames(graph_call.ret) :
                       \E d \in allowed : \E a \in 1..Len(d.authors) : d.authors[a] = n
                 /\ \A l \in LinkSet(graph_call.ret) : \A e \in Entries(l) :
                       \E d \in allowed : d._id = e.pmid
            ELSE \A d \in stored : \A a \in 1..Len(d.authors) :
                     d.authors[a] \in NodeNames(graph_call.ret)

\* C30: in the returned graph a link lists an article identifier at most once,
\* and a link has as many entries as there are Articles among those read on
\* which both of its endpoints appear.
C30_OneEntryPerArticle ==
    GraphServed =>
        \A l \in LinkSet(graph_call.ret) :
            /\ \A a, b \in 1..Len(l.articles) :
                  a # b => l.articles[a].pmid # l.articles[b].pmid
            /\ Len(l.articles) =
                  Cardinality({i \in 1..Len(graph_call.cursor) :
                      LET authors == graph_call.cursor[i].authors
                      IN  /\ \E a \in 1..Len(authors) : authors[a] = l.source
                          /\ \E a \in 1..Len(authors) : authors[a] = l.target})

(***************************************************************************)
(* SpecApi: the HTTP endpoints of main.py, requested in any order after the *)
(* application has started (lifespan): each store is connected or not, as   *)
(* connect() left it, and both serve every call made on them.               *)
(***************************************************************************)
\* n_results of the query_chunks call of ask_question.
TopK == 5

\* The response to a request: the endpoint, the request's body, whether it was
\* well-formed, the HTTP status, the response's body, and the calls the handler
\* made on the vector index and the generation service while serving it.
Response(endpoint, request, valid, status_code, body, trace) ==
    [op |-> endpoint, request |-> request, valid |-> valid,
     status |-> status_code, body |-> body, trace |-> trace]

\* A request without a body; a handler that made none of the traced calls.
NoBody == [given |-> FALSE]

NoTrace == [encoded |-> FALSE, queried |-> FALSE, generated |-> FALSE]

\* The calls ask_question made: out is what query_chunks did and returned,
\* prompt_context the context given to the generation service and llm_result
\* what the service did (both only when generated says it was called).
Trace(out, generated, prompt_context, llm_result) ==
    [encoded |-> out.encoded, queried |-> out.queried, retrieved |-> out.ret,
     generated |-> generated, prompt_context |-> prompt_context,
     llm_result |-> llm_result]

\* A seven-sentence abstract: three chunks of different lengths at the default
\* window of 3.
SevenSentences ==
    <<"a", "a", ".", " ", "a", ".", " ", "a", ".", " ",
      "a", "a", "a", ".", " ", "a", ".", " ", "a", ".", " ",
      "a", "a", "a", "a", ".">>

\* The two records of the end-to-end scenario: P1 by X and Y, P2 by Y and Z.
ScenarioRecords ==
    << [keys |-> AllKeys,
        PMID |-> "1", TI |-> "T1", AB |-> LongAbstract, AU |-> <<"X", "Y">>,
        DP |-> "2023 Jan 15"],
       [keys |-> AllKeys,
        PMID |-> "2", TI |-> "T2", AB |-> <<"a", "a", ".">>, AU |-> <<"Y", "Z">>,
        DP |-> "2023"] >>

\* The records the source returns to the ingestion requests: those of the
\* scenario and a record with a seven-sentence abstract.
ApiRecords ==
    { ScenarioRecords[1], ScenarioRecords[2],
      [keys |-> AllKeys,
       PMID |-> "3", TI |-> "T3", AB |-> SevenSentences, AU |-> <<"Z">>,
       DP |-> "2023 Jan"] }

\* The batches a fetch returns for the identifiers found: up to MaxBatch of
\* the records, each once, in any order.
ApiBatches ==
    UNION {{b \in [1..k -> ApiRecords] : \A i, j \in 1..k : i # j => b[i] # b[j]} :
              k \in 0..MaxBatch}

\* The insert loop of fetch_and_ingest from article i on: the documents of the
\* store after it.
RECURSIVE InsertAll(_, _, _, _)
InsertAll(collection, docs, articles, i) ==
    IF i > Len(articles) THEN docs
    ELSE InsertAll(collection,
                   insert_article(collection, docs, articles[i], "none").docs,
                   articles, i + 1)

\* What the bibliographic source does in a run: the search raises, finds
\* nothing, the fetch raises, or the fetch returns a batch of records.
SourceOutcomes ==
    {[kind |-> k, records |-> <<>>] : k \in {"search_raises", "no_ids", "fetch_raises"}}
    \cup {[kind |-> "records", records |-> b] : b \in ApiBatches}

\* The addresses the ingestion requests carry as entrez_email.
RequestEmails == {"a@example.org", "b@example.org"}

\* The calls a run of fetch_and_ingest makes on the bibliographic source, each
\* with the address it is made with (Bio.Entrez sends the module's
\* Entrez.email): esearch, and efetch when the search found identifiers.
EntrezCalls(kind, email) ==
    <<[call |-> "esearch", email |-> email]>>
    \o (IF kind \in {"fetch_raises", "records"}
        THEN <<[call |-> "efetch", email |-> email]>> ELSE <<>>)

\* The bodies of an ingestion request: well-formed, or with an empty term, a
\* max_results that is not positive, or no entrez_email.
IngestBodies == {"ok", "no_term", "bad_max_results", "no_entrez_email"}

\* GET /metadata
GetMetadata ==
    /\ response' =
          IF ~mongo_client
          THEN Response("metadata", NoBody, TRUE, 503, [detail |-> "MongoDB not connected."],
                        NoTrace)
          ELSE Response("metadata", NoBody, TRUE, 200,
                        [article_count |-> IF articles_collection
                                           THEN Cardinality(mongo_docs) ELSE 0],
                        NoTrace)
    /\ UNCHANGED <<mongoVars, chromaVars, ingestor_email>>

\* POST /ingest with one of the given addresses as entrez_email: the body is
\* validated, the address is stored in pubmed_ingestor.email, then
\* fetch_and_ingest runs to its end (it catches every exception and returns
\* None).
IngestData(emails) ==
    \/ \E body \in IngestBodies \ {"ok"}, entrez_email \in emails :
          /\ response' = Response("ingest",
                                  [body |-> body,
                                   entrez_email |-> IF body = "no_entrez_email"
                                                    THEN None ELSE entrez_email],
                                  FALSE, 400, [detail |-> body], NoTrace)
          /\ UNCHANGED <<mongoVars, chromaVars, ingestor_email>>
    \/ \E source \in SourceOutcomes, entrez_email \in emails :
          LET lists == ParseRecords(source.records, 1, EmptyLists)
              out == add_chunks(chroma_collection, chroma_model, chroma_index,
                                lists.texts, lists.metadatas, lists.ids, "none")
          IN  /\ ingestor_email' = entrez_email
              /\ mongo_docs' = InsertAll(articles_collection, mongo_docs,
                                         lists.articles, 1)
              /\ chroma_index' = IF lists.texts # <<>> THEN out.index
                                 ELSE chroma_index
              /\ response' = Response("ingest",
                                      [body |-> "ok", entrez_email |-> entrez_email],
                                      TRUE, 200,
                                      [message |-> "Ingestion process initiated"],
                                      [entrez |-> EntrezCalls(source.kind, Entrez_email)])
              /\ UNCHANGED <<mongo_client, articles_collection, last_call,
                             chroma_client, chroma_collection, chroma_model,
                             collection_deleted>>

\* What the generation service does with a request: the request fails (network
\* error, timeout), it answers with an error status, or it answers with a JSON
\* document: candidates is the list under "candidates" (empty when the key is
\* missing), a candidate says whether it has "content" and holds the list under
\* "parts" (empty when the key is missing), a part says whether it has "text".
Part(has_text) == [has_text |-> has_text, text |-> "text"]

Candidate(has_content, parts) == [has_content |-> has_content, parts |-> parts]

LlmResult(kind, candidates) == [kind |-> kind, candidates |-> candidates]

LlmOutcomes ==
    { LlmResult("request_error", <<>>),
      LlmResult("http_error", <<>>),
      LlmResult("json", <<>>),
      LlmResult("json", <<Candidate(FALSE, <<>>)>>),
      LlmResult("json", <<Candidate(TRUE, <<>>)>>),
      LlmResult("json", <<Candidate(TRUE, <<Part(FALSE)>>)>>),
      LlmResult("json", <<Candidate(TRUE, <<Part(TRUE)>>)>>) }

\* "Could not generate an answer."
Fallback == "Could not generate an answer."

\* A parsing that takes the text of the first part without looking whether it
\* is there (a missing key raises).
GeneratedAnswerStrict(llm_result) ==
    IF llm_result.candidates # <<>>
       /\ llm_result.candidates[1].has_content
       /\ llm_result.candidates[1].parts # <<>>
       /\ llm_result.candidates[1].parts[1].has_text
    THEN llm_result.candidates[1].parts[1].text
    ELSE "<raises>"

\* generated_answer after the parsing of llm_result.
GeneratedAnswer(llm_result) ==
    IF llm_result.candidates # <<>>
    THEN LET first_candidate == llm_result.candidates[1]
         IN  IF first_candidate.has_content /\ first_candidate.parts # <<>>
             THEN IF first_candidate.parts[1].has_text
                  THEN first_candidate.parts[1].text
                  ELSE Fallback
             ELSE Fallback
    ELSE Fallback

\* The labelled section of one retrieved chunk in the context string.
Section(chunk) ==
    [title |-> chunk.metadata.title, article_id |-> chunk.metadata.article_id,
     document |-> chunk.document]

\* A context string that keeps the section of the first chunk only.
ContextStringFirstOnly(retrieved_chunks) ==
    [marker |-> retrieved_chunks = <<>>,
     sections |-> [i \in 1..(IF retrieved_chunks = <<>> THEN 0 ELSE 1) |->
                      Section(retrieved_chunks[i])]]

\* The context string: the sections of the retrieved chunks in order, or the
\* marker "No relevant context found." when there is none.
ContextString(retrieved_chunks) ==
    [marker |-> retrieved_chunks = <<>>,
     sections |-> [i \in 1..Len(retrieved_chunks) |-> Section(retrieved_chunks[i])]]

\* No context, no answer of the service: the request did not get that far.
NoContext == [marker |-> FALSE, sections |-> <<>>]

NoLlmResult == LlmResult("none", <<>>)

\* An ask_question that turns a request without retrieved context down.
ask_question_refusing(client, collection, model, request, out, llm_result) ==
    IF out.ret = <<>>
    THEN Response("ask", request, request.query # <<>> /\ request.api_key, 500,
                  [detail |-> "no context"],
                  Trace(out, FALSE, NoContext, NoLlmResult))
    ELSE Response("ask", request, TRUE, 200,
                  [answer |-> GeneratedAnswer(llm_result), context |-> out.ret],
                  Trace(out, TRUE, ContextString(out.ret), llm_result))

\* ask_question: the response to a request. request.api_key says whether the
\* request or the environment holds a key; out is what query_chunks returns
\* (should it be called), llm_result what the generation service does (should
\* it be called).
ask_question(client, collection, model, request, out, llm_result) ==
    IF ~client \/ ~model
    THEN Response("ask", request, request.query # <<>> /\ request.api_key, 503,
                  [detail |-> "ChromaDB or embedding model not ready for RAG."],
                  NoTrace)
    ELSE IF request.query = <<>>
    THEN Response("ask", request, FALSE, 400,
                  [detail |-> "'query' parameter is required."], NoTrace)
    ELSE IF ~request.api_key
    THEN Response("ask", request, FALSE, 400,
                  [detail |-> "Gemini API Key is required but not provided."],
                  Trace(out, FALSE, NoContext, NoLlmResult))
    ELSE IF llm_result.kind # "json"
    THEN Response("ask", request, TRUE, 500, [detail |-> llm_result.kind],
                  Trace(out, TRUE, ContextString(out.ret), llm_result))
    ELSE Response("ask", request, TRUE, 200,
                  [answer |-> GeneratedAnswer(llm_result), context |-> out.ret],
                  Trace(out, TRUE, ContextString(out.ret), llm_result))

\* POST /ask, the vector index and the generation service doing whatever they
\* may do. hits is the answer of the index to the query, should it be asked
\* (it is not for an empty query); a request without key gets no answer of the
\* generation service.
AskQuestion ==
    \E query \in {<<>>} \cup VecQueries :
        \E hits \in IF query = <<>> THEN {<<>>}
                    ELSE QueryResults(chroma_index, query, TopK) :
            \E fault \in QueryFaults,
               llm_result \in LlmOutcomes \cup {NoLlmResult} :
                /\ response' =
                      ask_question(chroma_client, chroma_collection, chroma_model,
                                   [query |-> query,
                                    api_key |-> llm_result # NoLlmResult],
                                   query_chunks(chroma_collection, chroma_model,
                                                query, TopK, fault, hits),
                                   llm_result)
                /\ UNCHANGED <<mongoVars, chromaVars, ingestor_email>>

\* POST /network
GetNetworkData ==
    \E article_pmids \in GraphFilters :
        \E cursor \in find(mongo_docs, article_pmids) :
            /\ response' =
                  IF ~mongo_client
                  THEN Response("network", article_pmids, TRUE, 503,
                                [detail |-> "MongoDB not connected."], NoTrace)
                  ELSE Response("network", article_pmids, TRUE, 200,
                                get_author_network_data(articles_collection, cursor,
                                                        "none"),
                                NoTrace)
            /\ UNCHANGED <<mongoVars, chromaVars, ingestor_email>>

\* POST /clear_db
ClearDatabases ==
    /\ mongo_docs' = IF articles_collection THEN {} ELSE mongo_docs
    /\ chroma_index' = clear_collection(chroma_client, chroma_collection,
                                        collection_deleted, chroma_index, "none").index
    /\ response' = Response("clear_db", NoBody, TRUE, 200,
                            [message |-> "All data cleared"], NoTrace)
    /\ UNCHANGED <<mongo_client, articles_collection, last_call,
                   chroma_client, chroma_collection, chroma_model,
                   collection_deleted, ingestor_email>>

InitApi ==
    /\ ChunkIdle
    /\ \E ok \in BOOLEAN : mongo_client = ok /\ articles_collection = ok
    /\ mongo_docs = {} /\ last_call = NoCall
    /\ \E ok \in BOOLEAN :
          chroma_client = ok /\ chroma_collection = ok /\ chroma_model = ok
    /\ collection_deleted = FALSE
    /\ chroma_index = {}
    /\ RunIdle
    /\ OthersIdle

apiFrame == <<chunkVars, runVars, workers, vector_call, graph_call, Entrez_email>>

NextApi ==
    \/ GetMetadata /\ UNCHANGED apiFrame
    \/ IngestData({"a@example.org"}) /\ UNCHANGED apiFrame
    \/ AskQuestion /\ UNCHANGED apiFrame
    \/ GetNetworkData /\ UNCHANGED apiFrame
    \/ ClearDatabases /\ UNCHANGED apiFrame

SpecApi == InitApi /\ [][NextApi]_vars

(***************************************************************************)
(* SpecIngest: ingestion requests one after the other, each with any of the *)
(* addresses of RequestEmails.                                              *)
(***************************************************************************)
NextIngest == IngestData(RequestEmails) /\ UNCHANGED apiFrame

SpecIngest == InitApi /\ [][NextIngest]_vars

(***************************************************************************)
(* Claims about the endpoints (SpecApi, SpecIngest).                        *)
(***************************************************************************)
\* The stores and the model an endpoint needs.
NeedsMetadataStore(endpoint) == endpoint \in {"ingest", "metadata", "network"}

NeedsVectorStore(endpoint) == endpoint \in {"ingest", "ask"}

\* C14: for every request kind (ingest, ask, metadata count, graph), when the
\* store or model the request needs is not connected or loaded, the request is
\* answered with service-unavailable (503); in particular a well-formed
\* ingestion request made while the Metadata Store or the Vector Store is
\* unavailable is not answered with success.
C14_UnavailableReported ==
    (response.op # None /\ response.valid) =>
        /\ (NeedsMetadataStore(response.op) /\ ~mongo_client) => response.status = 503
        /\ (NeedsVectorStore(response.op) /\ ~(chroma_client /\ chroma_model))
              => response.status = 503

\* The store after the two records of the scenario were ingested into empty
\* stores.
ScenarioStore == {ArticleData(ScenarioRecords[1]), ArticleData(ScenarioRecords[2])}

\* The latest request was a graph request without filter, answered from the
\* store of the scenario.
ScenarioGraphServed ==
    /\ response.op = "network"
    /\ response.request = NoFilter
    /\ response.status = 200
    /\ mongo_docs = ScenarioStore

\* C22: end to end: after P1 by (X, Y) and P2 by (Y, Z) were ingested into
\* empty stores, a graph request without filter returns exactly the nodes X, Y
\* and Z, each once, and exactly two links: X-Y listing only P1 and Y-Z listing
\* only P2.
C22_EndToEndGraph ==
    ScenarioGraphServed =>
        /\ Len(response.body.nodes) = 3
        /\ NodeNames(response.body) = {"X", "Y", "Z"}
        /\ Len(response.body.links) = 2
        /\ LinkSet(response.body) =
              { [source |-> "X", target |-> "Y",
                 articles |-> <<[pmid |-> "1", title |-> "T1"]>>],
                [source |-> "Y", target |-> "Z",
                 articles |-> <<[pmid |-> "2", title |-> "T2"]>>] }

\* C22 witness: the graph request of the scenario was served, right after the
\* ingestion or later, and answered with three nodes.
C22_Witness ==
    /\ ScenarioGraphServed
    /\ chroma_index # {}
    /\ Len(response.body.nodes) = 3

\* The latest request was a question with a query text and a credential, and
\* the vector store and the model were there to serve it.
AskServed ==
    /\ response.op = "ask"
    /\ response.request.query # <<>>
    /\ response.request.api_key
    /\ response.status # 503

\* C23: when the vector store returns no chunk for a question with a query text
\* and a credential, the generation service is still called, the context it is
\* given is the marker "No relevant context found.", and once the service
\* answers the request is answered without error, with an empty context list.
C23_EmptyContextFallback ==
    (AskServed /\ response.trace.retrieved = <<>>) =>
        /\ response.trace.generated
        /\ response.trace.prompt_context = [marker |-> TRUE, sections |-> <<>>]
        /\ response.trace.llm_result.kind = "json" =>
              /\ response.status = 200
              /\ response.body.context = <<>>

\* C23 witness: a question to an index that holds chunks, whose query failed
\* and so returned nothing, was answered with the text of the service.
C23_Witness ==
    /\ AskServed
    /\ chroma_index # {}
    /\ response.trace.queried
    /\ response.trace.retrieved = <<>>
    /\ response.status = 200
    /\ response.body.answer = "text"

\* The answer text is missing from a document of the service at some level: no
\* candidate, a candidate without content, content without parts, or a first
\* part without text.
AnswerAbsent(llm_result) ==
    \/ llm_result.candidates = <<>>
    \/ ~llm_result.candidates[1].has_content
    \/ llm_result.candidates[1].parts = <<>>
    \/ ~llm_result.candidates[1].parts[1].has_text

\* C24: whenever the generation service answers a question with a document in
\* which the answer text is missing at any level, the request is answered
\* without error and its answer is the string "Could not generate an answer.".
C24_MalformedAnswerFallback ==
    ( /\ AskServed
      /\ response.trace.generated
      /\ response.trace.llm_result.kind = "json"
      /\ AnswerAbsent(response.trace.llm_result) )
    => /\ response.status = 200
       /\ response.body.answer = Fallback

\* C24 witness: the service answered with a part that has no text, over
\* retrieved context, and the request was answered with the fallback string.
C24_Witness ==
    /\ AskServed
    /\ response.trace.generated
    /\ response.trace.retrieved # <<>>
    /\ response.trace.llm_result = LlmResult("json", <<Candidate(TRUE, <<Part(FALSE)>>)>>)
    /\ response.status = 200
    /\ response.body.answer = Fallback

\* C25: a question that carries no credential (none in the request, none in
\* the environment) is turned down as a caller error before any I/O: neither
\* the embedding of the query, nor the query of the vector store, nor the call
\* of the generation service is made for it.
C25_NoCredentialNoIO ==
    ( /\ response.op = "ask"
      /\ ~response.request.api_key
      /\ response.status # 503 )
    => /\ response.status = 400
       /\ ~response.trace.encoded
       /\ ~response.trace.queried
       /\ ~response.trace.generated

\* C26: the context given to the generation service holds one labelled section
\* (title, identifier, chunk text) per retrieved chunk, in retrieval order,
\* nearest chunk first; the context list of the response is the retrieved
\* chunks in that same order; and there are at most 5 of them.
C26_ContextInRetrievalOrder ==
    (AskServed /\ response.trace.generated) =>
        LET retrieved == response.trace.retrieved
            sections == response.trace.prompt_context.sections
        IN  /\ Len(retrieved) <= 5
            /\ \A a, b \in 1..Len(retrieved) :
                  a < b => retrieved[a].distance <= retrieved[b].distance
            /\ Len(sections) = Len(retrieved)
            /\ \A i \in 1..Len(retrieved) :
                  /\ sections[i].title = retrieved[i].metadata.title
                  /\ sections[i].article_id = retrieved[i].metadata.article_id
                  /\ sections[i].document = retrieved[i].document
            /\ response.status = 200 => response.body.context = retrieved

\* C26 witness: a question to an index of more than 5 chunks was answered with
\* 5 chunks at growing distance and the service was given their 5 sections.
C26_Witness ==
    /\ AskServed
    /\ response.status = 200
    /\ Cardinality(chroma_index) > 5
    /\ Len(response.body.context) = 5
    /\ \A a \in 1..4 :
          response.body.context[a].distance < response.body.context[a + 1].distance
    /\ Len(response.trace.prompt_context.sections) = 5
    /\ response.trace.prompt_context.sections[1].article_id
          # response.trace.prompt_context.sections[2].article_id

\* C31: the search and fetch calls made on the bibliographic source during the
\* run of an ingestion request that carries the address e are made with e, not
\* with the address the ingestor was constructed with nor with that of an
\* earlier request.
C31_RunUsesRequestEmail ==
    (response.op = "ingest" /\ response.status = 200) =>
        \A k \in 1..Len(response.trace.entrez) :
            response.trace.entrez[k].email = response.request.entrez_email

(***************************************************************************)
(* Claims about fetch_and_ingest (Spec, SpecRerun).                         *)
(***************************************************************************)
\* The positions of the records that have a PMID.
WellFormed(recs) == {k \in 1..Len(recs) : HasPMID(recs[k])}

\* The chunks of the abstract of every raw record, at the default window.
AbstractChunks ==
    [r \in RawRecords |->
        _chunk_text(Get(r, "AB", NoAbstractAvailable), DefaultChunkSize)]

\* The chunks of the abstract of a record.
ChunksOf(record) == AbstractChunks[record]

\* The number of chunks of the well-formed records before position k.
RECURSIVE ChunksBefore(_, _)
ChunksBefore(recs, k) ==
    IF k <= 1 THEN 0
    ELSE ChunksBefore(recs, k - 1)
         + (IF HasPMID(recs[k - 1]) THEN Len(ChunksOf(recs[k - 1])) ELSE 0)

\* The calls of one operation in a call log, in order.
CallsOf(log, op) == SelectSeq(log, LAMBDA c : c.op = op)

\* No store and no model failed during the calls of the log.
NoFault(log) == \A k \in 1..Len(log) : ~log[k].fault

\* C3: the ingestion flow is idempotent across both stores: when a run that
\* completed with both write phases succeeding is followed by a run on the
\* same raw records, with both stores available, the second run leaves the
\* Metadata Store and the Vector Store as the first run left them, with one
\* Article per identifier and one Chunk per (article identifier, chunk index),
\* and every write of the second run succeeds.
C3_RerunIsIdempotent ==
    (pc = "DONE" /\ prev_run.ok /\ records = prev_run.records /\ NoFault(calls)) =>
        /\ mongo_docs = at_start.mongo
        /\ chroma_index = at_start.chroma
        /\ AllSucceeded(calls)
        /\ \A k \in WellFormed(records) :
              /\ Cardinality(WithId(mongo_docs, records[k].PMID)) = 1
              /\ \A j \in 0..(Len(ChunksOf(records[k])) - 1) :
                    Cardinality({x \in chroma_index :
                                    /\ x.metadata.article_id = records[k].PMID
                                    /\ x.metadata.chunk_index = j}) = 1

\* C3 witness: the second of two runs on the same two records (three chunks)
\* is done, every write of it succeeded, and both stores hold what they held
\* when it started.
C3_Witness ==
    /\ pc = "DONE"
    /\ prev_run.ok
    /\ records = prev_run.records
    /\ Cardinality(WellFormed(records)) = 2
    /\ Len(chunks_to_chroma_ids) = 3
    /\ Len(calls) = 3
    /\ AllSucceeded(calls)
    /\ Cardinality(mongo_docs) = 2
    /\ Cardinality(chroma_index) = 3
    /\ mongo_docs = at_start.mongo
    /\ chroma_index = at_start.chroma

\* C7: for a parsed article with identifier A whose abstract yields n chunks,
\* the chunk identifiers are exactly A_chunk_0 .. A_chunk_(n-1) in that order,
\* each at the list position of its chunk text and of the metadata whose
\* article_id is A and chunk_index the same index; they depend on the record
\* alone; a batch of records with distinct identifiers has pairwise distinct
\* chunk identifiers; and these lists are what the Vector Store is handed.
C7_ChunkIdentifiers ==
    (pc \in {"DUAL_WRITE", "DONE"}) =>
        /\ Len(chunks_to_chroma_ids) = ChunksBefore(records, Len(records) + 1)
        /\ Len(chunks_to_chroma_texts) = Len(chunks_to_chroma_ids)
        /\ Len(chunks_to_chroma_metadatas) = Len(chunks_to_chroma_ids)
        /\ \A k \in WellFormed(records) :
              LET A == records[k].PMID
                  chs == ChunksOf(records[k])
                  off == ChunksBefore(records, k)
              IN  \A j \in 0..(Len(chs) - 1) :
                     /\ chunks_to_chroma_ids[off + j + 1] = A \o "_chunk_" \o ToString(j)
                     /\ chunks_to_chroma_texts[off + j + 1] = chs[j + 1]
                     /\ chunks_to_chroma_metadatas[off + j + 1].article_id = A
                     /\ chunks_to_chroma_metadatas[off + j + 1].chunk_index = j
        /\ (\A a, b \in WellFormed(records) :
               a # b => records[a].PMID # records[b].PMID)
           => ~HasDuplicates(chunks_to_chroma_ids)
        /\ \A c \in 1..Len(calls) :
              calls[c].op = "add_chunks" =>
                 /\ calls[c].ids = chunks_to_chroma_ids
                 /\ calls[c].texts = chunks_to_chroma_texts
                 /\ calls[c].metadatas = chunks_to_chroma_metadatas

\* C7 witness: a run is done whose batch holds article "1" (two chunks) and
\* article "1_chunk_0" (one chunk), and the Vector Store took the three
\* identifiers.
C7_Witness ==
    /\ pc = "DONE"
    /\ chunks_to_chroma_ids = <<"1_chunk_0", "1_chunk_1", "1_chunk_0_chunk_0">>
    /\ \E c \in 1..Len(calls) :
          /\ calls[c].op = "add_chunks"
          /\ calls[c].ids = chunks_to_chroma_ids
          /\ calls[c].ret

\* The article_data of the well-formed records, in record order.
RECURSIVE ParsedArticles(_, _)
ParsedArticles(recs, k) ==
    IF k > Len(recs) THEN <<>>
    ELSE (IF HasPMID(recs[k]) THEN <<ArticleData(recs[k])>> ELSE <<>>)
         \o ParsedArticles(recs, k + 1)

\* C8: in DUAL_WRITE insert_article is invoked exactly once for every parsed
\* Article, in parse order, whatever the earlier inserts returned; the Vector
\* Store write is one call, made after all the inserts, with all chunks of all
\* parsed records (no call when there is no chunk at all).
C8_DualWriteOrder ==
    /\ pc = "DUAL_WRITE" =>
          /\ Len(calls) = next_article - 1
          /\ \A k \in 1..Len(calls) :
                /\ calls[k].op = "insert_article"
                /\ calls[k].arg = ParsedArticles(records, 1)[k]
    /\ pc = "DONE" =>
          LET parsed == ParsedArticles(records, 1)
              n == Len(parsed)
              total == ChunksBefore(records, Len(records) + 1)
          IN  /\ Len(CallsOf(calls, "insert_article")) = n
              /\ \A k \in 1..n :
                    /\ calls[k].op = "insert_article"
                    /\ calls[k].arg = parsed[k]
              /\ Len(calls) = n + (IF total > 0 THEN 1 ELSE 0)
              /\ total > 0 =>
                    /\ calls[n + 1].op = "add_chunks"
                    /\ Len(calls[n + 1].ids) = total
                    /\ calls[n + 1].ids = chunks_to_chroma_ids
                    /\ calls[n + 1].texts = chunks_to_chroma_texts

\* C8 witness: a run is done in which the first insert failed, the second
\* insert stored its Article and the vector write, made last, succeeded.
C8_Witness ==
    /\ pc = "DONE"
    /\ Len(calls) = 3
    /\ calls[1].op = "insert_article" /\ calls[1].ret = None
    /\ calls[2].op = "insert_article" /\ calls[2].ret # None
    /\ calls[2].arg \in mongo_docs
    /\ calls[3].op = "add_chunks" /\ calls[3].ret

\* C9: a malformed record never aborts its siblings: when a run is done, for
\* every fetched record that has an identifier insert_article was called with
\* its article (and stored it, or found the identifier stored, unless the
\* store was unavailable or failed in that call), and all its chunk identifiers
\* are in the Vector Store write.
C9_MalformedRecordSkipped ==
    pc = "DONE" =>
        \A k \in WellFormed(records) :
            /\ \E c \in 1..Len(calls) :
                  /\ calls[c].op = "insert_article"
                  /\ calls[c].arg = ArticleData(records[k])
                  /\ (calls[c].collection /\ ~calls[c].fault) =>
                        /\ calls[c].ret = records[k].PMID
                        /\ WithId(mongo_docs, records[k].PMID) # {}
            /\ \A j \in 0..(Len(ChunksOf(records[k])) - 1) :
                  \E c \in 1..Len(calls) :
                      /\ calls[c].op = "add_chunks"
                      /\ \E q \in 1..Len(calls[c].ids) :
                            /\ calls[c].ids[q] = ChunkId(records[k].PMID, j)
                            /\ calls[c].texts[q] = ChunksOf(records[k])[j + 1]

\* C9 witness: a run is done whose batch was a record without PMID followed by
\* a well-formed record; the sibling is stored and its chunks are in the index.
C9_Witness ==
    /\ pc = "DONE"
    /\ Len(records) = 2
    /\ ~HasPMID(records[1])
    /\ HasPMID(records[2])
    /\ ArticleData(records[2]) \in mongo_docs
    /\ Len(ChunksOf(records[2])) = 2
    /\ \A j \in 0..1 : \E x \in chroma_index : x.id = ChunkId(records[2].PMID, j)

\* The stage changes of a run.
StageOrder ==
    { <<"idle", "SEARCHING">>, <<"DONE", "SEARCHING">>, <<"FAILED", "SEARCHING">>,
      <<"SEARCHING", "FETCHING">>, <<"SEARCHING", "FAILED">>,
      <<"FETCHING", "PARSING">>, <<"FETCHING", "FAILED">>,
      <<"PARSING", "DUAL_WRITE">>, <<"DUAL_WRITE", "DONE">> }

\* C10: the stages run in the order SEARCHING, FETCHING, PARSING, DUAL_WRITE,
\* DONE; an adapter call is made and a store changes in DUAL_WRITE only; a run
\* that fails (search or fetch raises, or the search finds nothing) has called
\* neither insert_article nor add_chunks and leaves both stores as they were
\* when it started.
C10_StagesAndFailure ==
    [][ /\ pc' # pc => <<pc, pc'>> \in StageOrder
        /\ (calls' # calls /\ calls' # <<>>) => (pc = "DUAL_WRITE")
        /\ (mongo_docs' # mongo_docs \/ chroma_index' # chroma_index)
              => (pc = "DUAL_WRITE")
        /\ pc' = "FAILED" =>
              /\ calls' = <<>>
              /\ mongo_docs' = at_start'.mongo
              /\ chroma_index' = at_start'.chroma
      ]_vars

\* C10 witness: the second run has failed with both stores filled by the
\* first, and both are as they were.
C10_Witness ==
    /\ pc = "FAILED"
    /\ run_no = 2
    /\ calls = <<>>
    /\ at_start.mongo # {} /\ at_start.chroma # {}
    /\ mongo_docs = at_start.mongo
    /\ chroma_index = at_start.chroma

\* C11: in every run, every chunk handed to the Vector Store write carries an
\* owning article identifier (metadata article_id) equal to the identifier of
\* an Article parsed from a record of the same batch, and insert_article was
\* called with that Article earlier in the same run (whatever it returned).
C11_ChunkOwnerInBatch ==
    /\ (pc \in {"DUAL_WRITE", "DONE"}) =>
          \A q \in 1..Len(chunks_to_chroma_metadatas) :
              \E k \in WellFormed(records) :
                  /\ records[k].PMID = chunks_to_chroma_metadatas[q].article_id
                  /\ \E a \in 1..Len(articles_to_mongo) :
                        articles_to_mongo[a] = ArticleData(records[k])
    /\ \A c \in 1..Len(calls) :
          calls[c].op = "add_chunks" =>
              \A q \in 1..Len(calls[c].metadatas) :
                  \E k \in 1..(c - 1) :
                      /\ calls[k].op = "insert_article"
                      /\ calls[k].arg._id = calls[c].metadatas[q].article_id
                      /\ \E r \in WellFormed(records) :
                            calls[k].arg = ArticleData(records[r])

\* C11 witness: the Vector Store write of a run took the chunks of two
\* articles; the insert of the first owner had failed, that of the second had
\* stored its Article.
C11_Witness ==
    /\ pc = "DONE"
    /\ Len(calls) = 3
    /\ calls[3].op = "add_chunks"
    /\ Len(calls[3].metadatas) = 3
    /\ calls[3].metadatas[1].article_id = calls[1].arg._id
    /\ calls[3].metadatas[3].article_id = calls[2].arg._id
    /\ calls[1].arg._id # calls[2].arg._id
    /\ calls[1].ret = None
    /\ calls[2].ret # None

\* The number of Articles a run has newly written: the identifiers stored now
\* and not when the run started.
NewlyWritten ==
    Cardinality({d._id : d \in mongo_docs} \ {d._id : d \in at_start.mongo})

\* The number of records of the run that were not written: those without
\* identifier and those parsed but not newly written.
NotWritten == Len(records) - NewlyWritten

\* C15: on completion a run emits the count of records processed, the count
\* ingested and the count skipped, and they agree with what the run did:
\* processed = parsed records, ingested = records newly written, skipped =
\* records without identifier or already present. (No retry: every parsed
\* record has exactly one insert_article call.)
C15_CompletionCounts ==
    pc = "DONE" =>
        /\ logged[Len(logged)].msg = "completed"
        /\ logged[Len(logged)].counts =
              <<Len(articles_to_mongo), NewlyWritten, NotWritten>>
        /\ Len(CallsOf(calls, "insert_article")) = Len(articles_to_mongo)

====
